---- MODULE Spec2Model ----
(***************************************************************************)
(* A model of the study-assistant application: the pages (Notes, Quizzes,  *)
(* PastPapers, Planner, Chat), the process-note edge function, and the     *)
(* row-level-secured store they write to.                                  *)
(*                                                                         *)
(* An async handler is split at its awaits: the part before an await is    *)
(* one action, the arrival of the awaited response is another.  What a     *)
(* continuation captured in its closure travels in the in-flight record.   *)
(***************************************************************************)
EXTENDS Integers, Sequences, FiniteSets, TLC

(* ------------------------------------------------------------------ *)
(* Bounds of the model                                                 *)
(* ------------------------------------------------------------------ *)
\* Rows the store ever creates in one behaviour (gen_random_uuid is unbounded).
MaxRows == 1
\* Questions in a generated quiz.
MaxQuestions == 3
\* Answer options of a question (indices 0 .. NumOptions-1).
NumOptions == 2
\* List reads a page has in flight at the same time.
MaxFetch == 1
\* Invocations of the process-note function running at the same time.
MaxInvocations == 2
MaxExtracts == 2
MaxActs == 4
\* Pages of a PDF document, and text runs of a page.
MaxPages == 2
MaxRuns == 2
\* Buttons pressed on a page that is opened on a saved note, requests of other
\* senders to process-note included.
MaxPresses == 2
\* Checkbox updates the Planner has under way at the same time, each with the
\* list read that follows it.
MaxToggles == 2

(* ------------------------------------------------------------------ *)
(* Values                                                              *)
(* ------------------------------------------------------------------ *)
\* A text is a sequence of one-character strings; "" is <<>>.
\* SQL NULL, JS null and JS undefined are the absence of the key from a record:
\* a row with no "summary" key has summary NULL.
IsNull(rec, c) == c \notin DOMAIN rec

\* The identities of auth.users.
Users == {"u1", "u2"}
\* useAuth().user of the modelled pages: every page is rendered inside
\* ProtectedRoute, so a mounted page has a signed-in user.
user == "u1"
\* What a request to the store or to an edge function may end in.
Outcomes == {"ok", "error"}

\* String.prototype.trim on a text: leading and trailing white space removed.
IsSpace(ch) == ch \in {" ", "\n"}
RECURSIVE TrimStart(_)
TrimStart(s) == IF s # <<>> /\ IsSpace(Head(s)) THEN TrimStart(Tail(s)) ELSE s
RECURSIVE TrimEnd(_)
TrimEnd(s) ==
    IF s # <<>> /\ IsSpace(s[Len(s)]) THEN TrimEnd(SubSeq(s, 1, Len(s) - 1)) ELSE s
Trim(s) == TrimEnd(TrimStart(s))

\* A sequence without its i-th element.
RemoveAt(s, i) == SubSeq(s, 1, i - 1) \o SubSeq(s, i + 1, Len(s))

VARIABLES
    store,      \* table name -> set of rows
    nextId,     \* the id the next created row gets (ids are fresh)
    clock,      \* NOW() of the next statement
    toast,      \* the notification the last step showed ("" when none)
    quiz,       \* the Quizzes page: its useState values and what it awaits
    env,        \* Deno.env of the edge functions
    fn,         \* the process-note invocations: where each is, its locals, its response
    notes,      \* the Notes page: its useState values and what it awaits
    acts,       \* how many times a user has acted (on the Notes page, at the gateway)
    gw,         \* the gateway: the last statement it ran, its answer, the deletes it ran
    papers,     \* the Past Papers page: its useState values and what it awaits
    planner,    \* the Planner page: its useState values and what it awaits
    chat,       \* the Chat page: its useState values and what it awaits
    route,      \* the page the router has mounted
    insights,   \* the Insights page: its useState values and what it awaits
    chat2       \* the Chat page the same user has open in a second tab

vars == <<store, nextId, clock, toast, quiz, env, fn, notes, acts, gw, papers, planner, chat,
          route, insights, chat2>>

(* ------------------------------------------------------------------ *)
(* The store: tables, row-level policies, statements                   *)
(* ------------------------------------------------------------------ *)
Tables == {"notes", "quizzes", "past_papers", "study_plans", "study_tasks", "chat_sessions"}

EmptyStore == [t \in Tables |-> {}]

\* The columns declared NOT NULL without a DEFAULT: a statement must supply them.
Required(t) ==
    CASE t = "notes" -> {"user_id", "title"}
      [] t = "quizzes" -> {"user_id", "title", "questions"}
      [] t = "past_papers" -> {"user_id", "title"}
      [] t = "study_plans" -> {"user_id", "title"}
      [] t = "study_tasks" -> {"user_id", "title", "date"}
      [] t = "chat_sessions" -> {"user_id"}

\* The columns with a DEFAULT other than NULL (id and created_at apart), and it.
Defaulted(t) ==
    CASE t \in {"quizzes", "study_plans", "study_tasks"} -> {"completed"}
      [] t = "chat_sessions" -> {"title", "messages"}
      [] OTHER -> {}
\* The tables with updated_at ... DEFAULT NOW().
Stamped(t) == IF t \in {"notes", "study_plans", "chat_sessions"} THEN {"updated_at"} ELSE {}
ColumnDefault(t, c) ==
    CASE c = "completed" -> FALSE
      [] c = "title" -> <<"N">>
      [] c = "messages" -> <<>>

\* CREATE POLICY ... FOR SELECT USING (auth.uid() = user_id)
PolicySelect(t, uid, row) == uid = row.user_id
\* CREATE POLICY ... FOR INSERT WITH CHECK (auth.uid() = user_id)
PolicyInsert(t, uid, row) == uid = row.user_id
\* CREATE POLICY ... FOR UPDATE USING (auth.uid() = user_id)
MutPolicyUpdate(t, uid, row) == row.user_id \in Users
PolicyUpdate(t, uid, row) == uid = row.user_id
\* CREATE POLICY ... FOR DELETE USING (auth.uid() = user_id)
MutPolicyDelete(t, uid, row) == row.user_id \in Users
PolicyDelete(t, uid, row) == uid = row.user_id

\* The row a statement's payload becomes: id and created_at from their defaults,
\* a column the payload leaves out from its DEFAULT (NULL: no key).
NewRow(t, payload, id, now) ==
    [c \in {"id", "created_at"} \cup DOMAIN payload \cup Defaulted(t) \cup Stamped(t) |->
        IF c = "id" THEN id
        ELSE IF c \in DOMAIN payload THEN payload[c]
        ELSE IF c \in {"created_at", "updated_at"} THEN now
        ELSE ColumnDefault(t, c)]

\* Whether the store accepts the insert of one payload by identity uid: the
\* NOT NULL constraints and the INSERT policy's WITH CHECK.
InsertAllowed(t, uid, payload) ==
    /\ \A c \in Required(t) : c \in DOMAIN payload
    /\ PolicyInsert(t, uid, payload)

\* INSERT of one row by uid: the table afterwards.
InsertRow(t, uid, payload) == store[t] \cup {NewRow(t, payload, nextId, clock)}

\* .delete().eq('id', id) by uid: the table afterwards.  A row the DELETE policy
\* hides from uid is not touched, and the statement reports no error.
DeleteWhereId(t, uid, id) ==
    {r \in store[t] : ~(r.id = id /\ PolicyDelete(t, uid, r))}

\* A partial update: only the supplied columns are overwritten.
MutMerge(row, fields) ==
    [c \in {"id", "user_id"} \cup DOMAIN fields |->
        IF c \in DOMAIN fields THEN fields[c] ELSE row[c]]
Merge(row, fields) ==
    [c \in DOMAIN row \cup DOMAIN fields |->
        IF c \in DOMAIN fields THEN fields[c] ELSE row[c]]

\* CREATE TRIGGER update_<t>_updated_at BEFORE UPDATE ... FOR EACH ROW:
\* NEW.updated_at = NOW(), on the tables that have the column.
Touched(t, row) ==
    IF "updated_at" \in Stamped(t)
    THEN [c \in DOMAIN row \cup {"updated_at"} |-> IF c = "updated_at" THEN clock ELSE row[c]]
    ELSE row

\* .update(fields).eq('id', id) by uid.  The UPDATE policy has no WITH CHECK, so
\* its USING expression is also checked on the new row: it fails the statement.
MutUpdateWhereId(t, uid, id, fields) ==
    LET hit == {r \in store[t] : r.id = id /\ PolicyUpdate(t, uid, r)}
    IN  IF \E r \in hit : ~PolicyUpdate(t, uid, Merge(r, fields))
                            \/ ("updated_at" \in DOMAIN r /\ r.updated_at # r.created_at)
        THEN [error |-> TRUE, table |-> store[t]]
        ELSE [error |-> FALSE,
              table |-> (store[t] \ hit) \cup {Touched(t, Merge(r, fields)) : r \in hit}]
UpdateWhereId(t, uid, id, fields) ==
    LET hit == {r \in store[t] : r.id = id /\ PolicyUpdate(t, uid, r)}
    IN  IF \E r \in hit : ~PolicyUpdate(t, uid, Merge(r, fields))
        THEN [error |-> TRUE, table |-> store[t]]
        ELSE [error |-> FALSE,
              table |-> (store[t] \ hit) \cup {Touched(t, Merge(r, fields)) : r \in hit}]

\* The same with null values in the object: SET c = NULL for the columns in nulls.
MutUpdateWhereIdNulls(t, uid, id, fields, nulls) ==
    LET hit == {r \in store[t] : r.id = id /\ PolicyUpdate(t, uid, r)}
        new(r) == LET m == Merge(r, fields) IN [c \in DOMAIN m \ nulls |-> m[c]]
        made == IF \E r \in store[t] : r.id = id THEN {}
                ELSE {Touched(t, new([id |-> id, user_id |-> uid]))}
    IN  IF \E r \in hit : ~PolicyUpdate(t, uid, new(r))
        THEN [error |-> TRUE, table |-> store[t]]
        ELSE [error |-> FALSE,
              table |-> (store[t] \ hit) \cup {Touched(t, new(r)) : r \in hit} \cup made]

UpdateWhereIdNulls(t, uid, id, fields, nulls) ==
    LET hit == {r \in store[t] : r.id = id /\ PolicyUpdate(t, uid, r)}
        new(r) == LET m == Merge(r, fields) IN [c \in DOMAIN m \ nulls |-> m[c]]
    IN  IF \E r \in hit : ~PolicyUpdate(t, uid, new(r))
        THEN [error |-> TRUE, table |-> store[t]]
        ELSE [error |-> FALSE,
              table |-> (store[t] \ hit) \cup {Touched(t, new(r)) : r \in hit}]

\* The rows of t that identity uid can see.
Visible(t, uid) == {r \in store[t] : PolicySelect(t, uid, r)}

(* ------------------------------------------------------------------ *)
(* Sorting a list read                                                 *)
(* ------------------------------------------------------------------ *)
\* .order('created_at', { ascending: false }): the rows as a list, newest first.
RECURSIVE MutOrderDesc(_)
MutOrderDesc(rows) ==
    IF rows = {} THEN <<>>
    ELSE LET top == CHOOSE r \in rows : \A o \in rows : r.created_at <= o.created_at
         IN  <<top>> \o MutOrderDesc(rows \ {top})
RECURSIVE OrderDesc(_)
OrderDesc(rows) ==
    IF rows = {} THEN <<>>
    ELSE LET top == CHOOSE r \in rows : \A o \in rows : o.created_at <= r.created_at
         IN  <<top>> \o OrderDesc(rows \ {top})

\* A list read as a page issues it: .select('*').eq('user_id', uid).order(...).
ListDesc(t, uid) == OrderDesc({r \in Visible(t, uid) : r.user_id = uid})

(* ------------------------------------------------------------------ *)
(* The process-note edge function                                      *)
(* ------------------------------------------------------------------ *)
\* The upstream's values for the three fields of create_study_note.
UpstreamFields ==
    [summary |-> <<"s">>, keywords |-> <<"k1", "k2">>, mindmap |-> [nodes |-> <<"n">>]]
\* A record restricted to the keys in ks.
Restrict(rec, ks) == [c \in ks |-> rec[c]]

\* toolCall.function.arguments, a string: text that is not JSON, the JSON text
\* "null", or the JSON text of an object with some of the three fields.
ToolArguments ==
    {[json |-> "invalid"], [json |-> "null"]}
    \cup {[json |-> "object", value |-> Restrict(UpstreamFields, ks)] :
            ks \in SUBSET {"summary", "keywords", "mindmap"}}

\* JSON.parse: throws on text that is not JSON; "null" parses to null.
JSONparse(str) ==
    CASE str.json = "invalid" -> [threw |-> TRUE]
      [] str.json = "null" -> [threw |-> FALSE, isNull |-> TRUE]
      [] str.json = "object" -> [threw |-> FALSE, isNull |-> FALSE, value |-> str.value]

\* What fetch() to the completion service ends in: a rejected promise, or a
\* response with a status and a body.  A 200 body is not JSON, JSON without
\* choices, a message without tool_calls (free text), or a message with a tool call.
UpstreamStatuses == {200, 402, 429, 500}
UpstreamBodies ==
    {[shape |-> "not_json"], [shape |-> "no_choices"], [shape |-> "text"]}
    \cup {[shape |-> "tool", arguments |-> a] : a \in ToolArguments}
UpstreamResponses ==
    {[rejected |-> TRUE]}
    \cup {[rejected |-> FALSE, status |-> st, body |-> [shape |-> "text"]] :
            st \in UpstreamStatuses \ {200}}
    \cup {[rejected |-> FALSE, status |-> 200, body |-> b] : b \in UpstreamBodies}
\* response.ok
ResponseOk(response) == response.status >= 200 /\ response.status <= 299

\* The requests the function can get: the browser's preflight, a POST whose body
\* is not JSON, a POST with { title, text }.
NotePosts == [method : {"POST"}, json : {TRUE}, title : {<<>>, <<"T">>}, text : {<<"x">>}]
EdgeRequests ==
    {[method |-> "OPTIONS"], [method |-> "POST", json |-> FALSE]} \cup NotePosts

\* The result when the upstream made no tool call.
\* mindmap: null is the absent key.
DefaultResult ==
    [summary |-> <<"C", "o", "u", "l", "d", " ", "n", "o", "t", " ",
                   "g", "e", "n", "e", "r", "a", "t", "e", " ",
                   "s", "u", "m", "m", "a", "r", "y">>,
     keywords |-> <<>>]

\* The catch block: status 500 and { error: message }.
ErrorResponse(message) == [status |-> 500, body |-> [error |-> message]]

Invocations == 1 .. MaxInvocations
FnIdle == [pc |-> "idle", sent |-> 0]
FnInit == [i \in Invocations |-> FnIdle]

\* serve(): from the request to the first await on the network, or to the
\* response when none is reached.
MutServe(req) ==
    IF req.method = "OPTIONS"
    THEN [pc |-> "done", req |-> req, sent |-> 0, resp |-> [status |-> 200]]
    ELSE IF ~req.json
    THEN [pc |-> "done", req |-> req, sent |-> 0,
          resp |-> ErrorResponse([text |-> "Unexpected token"])]
    ELSE [pc |-> "fetch", req |-> req, sent |-> 1,
          upstreamRequest |-> [Authorization |-> env.LOVABLE_API_KEY,
                               title |-> req.title, text |-> req.text]]
Serve(req) ==
    IF req.method = "OPTIONS"
    THEN [pc |-> "done", req |-> req, sent |-> 0, resp |-> [status |-> 200]]
    ELSE IF ~req.json
    THEN [pc |-> "done", req |-> req, sent |-> 0,
          resp |-> ErrorResponse([text |-> "Unexpected token"])]
    ELSE IF env.LOVABLE_API_KEY = <<>>
    THEN [pc |-> "done", req |-> req, sent |-> 0,
          resp |-> ErrorResponse([text |-> "LOVABLE_API_KEY not configured"])]
    ELSE [pc |-> "fetch", req |-> req, sent |-> 1,
          upstreamRequest |-> [Authorization |-> env.LOVABLE_API_KEY,
                               title |-> req.title, text |-> req.text]]

\* const result = toolCall ? JSON.parse(toolCall.function.arguments) : {...},
\* then new Response(JSON.stringify(result)); a throw goes to the catch block.
MutResultResponse(body) ==
    IF body.shape = "text"
    THEN ErrorResponse([text |-> "No tool call"])
    ELSE LET parsed == JSONparse(body.arguments)
         IN  IF parsed.threw THEN ErrorResponse([text |-> "Unexpected token"])
             ELSE IF parsed.isNull THEN [status |-> 200, isNull |-> TRUE]
             ELSE [status |-> 200, body |-> parsed.value]
ResultResponse(body) ==
    IF body.shape = "text"
    THEN [status |-> 200, body |-> DefaultResult]
    ELSE LET parsed == JSONparse(body.arguments)
         IN  IF parsed.threw THEN ErrorResponse([text |-> "Unexpected token"])
             ELSE IF parsed.isNull THEN [status |-> 200, isNull |-> TRUE]
             ELSE [status |-> 200, body |-> parsed.value]

\* serve(): from the answer of fetch() to the response.
MutServeResponse(response) ==
    IF response.rejected THEN ErrorResponse([text |-> "error sending request"])
    ELSE IF ~ResponseOk(response)
    THEN ErrorResponse([text |-> "AI API error: ", status |-> response.status])
    ELSE IF response.body.shape = "not_json" THEN ErrorResponse([text |-> "Unexpected token"])
    ELSE IF response.body.shape = "no_choices" THEN [status |-> 200, body |-> DefaultResult]
    ELSE ResultResponse(response.body)

ServeResponse(response) ==
    IF response.rejected THEN ErrorResponse([text |-> "error sending request"])
    ELSE IF ~ResponseOk(response)
    THEN ErrorResponse([text |-> "AI API error: ", status |-> response.status])
    ELSE IF response.body.shape = "not_json" THEN ErrorResponse([text |-> "Unexpected token"])
    ELSE IF response.body.shape = "no_choices"
    THEN ErrorResponse([text |-> "Cannot read properties of undefined"])
    ELSE ResultResponse(response.body)

\* A request arrives and the handler runs to its first await or to its end.
EdgeServe(i, req) ==
    /\ fn[i].pc \in {"idle", "done"}
    /\ fn' = [fn EXCEPT ![i] = Serve(req)]

\* The completion service answers and the handler runs to its end.
MutEdgeFetchReturn(i, response) ==
    /\ fn[i].pc = "fetch"
    /\ IF ~response.rejected /\ ~ResponseOk(response) /\ fn[i].sent < 2
       THEN fn' = [fn EXCEPT ![i].sent = @ + 1]
       ELSE fn' = [fn EXCEPT ![i] = [pc |-> "done", req |-> fn[i].req, sent |-> fn[i].sent,
                                     response |-> response,
                                     resp |-> ServeResponse(response)]]
EdgeFetchReturn(i, response) ==
    /\ fn[i].pc = "fetch"
    /\ fn' = [fn EXCEPT ![i] = [pc |-> "done", req |-> fn[i].req, sent |-> fn[i].sent,
                                response |-> response, resp |-> ServeResponse(response)]]

(* ------------------------------------------------------------------ *)
(* The Notes page                                                      *)
(* ------------------------------------------------------------------ *)
PDF == "application/pdf"
DOCX == "application/vnd.openxmlformats-officedocument.wordprocessingml.document"

\* Array.prototype.join on a list of texts.
RECURSIVE Join(_, _)
Join(items, sep) ==
    IF items = <<>> THEN <<>>
    ELSE IF Len(items) = 1 THEN items[1]
    ELSE items[1] \o sep \o Join(Tail(items), sep)

\* extractTextFromPDF: the text runs of each page joined by a blank, each page
\* followed by two line breaks, the whole trimmed.  pages is what pdf.js reads;
\* getDocument rejects on a file that is not a PDF document and on one that
\* asks for a password.
RECURSIVE MutPagesText(_)
MutPagesText(pages) ==
    IF pages = <<>> THEN <<>>
    ELSE MutPagesText(Tail(pages)) \o <<"\n", "\n">> \o Join(Head(pages), <<" ">>)
RECURSIVE PagesText(_)
PagesText(pages) ==
    IF pages = <<>> THEN <<>>
    ELSE Join(Head(pages), <<" ">>) \o <<"\n", "\n">> \o PagesText(Tail(pages))
ExtractTextFromPDF(file) ==
    IF file.corrupt \/ file.encrypted THEN [threw |-> TRUE]
    ELSE [threw |-> FALSE, text |-> Trim(PagesText(file.pages))]

\* extractTextFromDOCX: mammoth's raw text.
ExtractTextFromDOCX(file) ==
    IF file.corrupt THEN [threw |-> TRUE]
    ELSE [threw |-> FALSE, text |-> file.value]

\* The files the upload control can be given.  name is file.name split at ".".
Files ==
    {[name |-> <<<<"a">>, <<"pdf">>>>, type |-> PDF, corrupt |-> FALSE, encrypted |-> FALSE,
      pages |-> <<<<<<"p">>, <<"q">>>>, <<<<"r">>>>>>],
     [name |-> <<<<"a">>, <<"pdf">>>>, type |-> PDF, corrupt |-> TRUE, encrypted |-> FALSE],
     [name |-> <<<<"a">>, <<"docx">>>>, type |-> DOCX, corrupt |-> FALSE, value |-> <<"d">>],
     [name |-> <<<<"a">>, <<"txt">>>>, type |-> "text/plain", corrupt |-> FALSE, value |-> <<"t">>]}
\* The documents a user can have: PDF documents of up to MaxPages pages, each
\* with up to MaxRuns text runs (a page of a scan has none; a run can be blank),
\* a PDF document that asks for a password, a file that is no document, and
\* DOCX documents with and without text.
SeqsUpTo(S, n) == UNION {[1 .. m -> S] : m \in 0 .. n}
RunTexts == {<<"p">>, <<"q">>, <<" ">>}
Documents ==
    {[name |-> <<<<"a">>, <<"pdf">>>>, type |-> PDF, corrupt |-> FALSE, encrypted |-> FALSE,
      pages |-> ps] : ps \in SeqsUpTo(SeqsUpTo(RunTexts, MaxRuns), MaxPages)}
    \cup {[name |-> <<<<"a">>, <<"pdf">>>>, type |-> PDF, corrupt |-> c, encrypted |-> ~c] :
             c \in BOOLEAN}
    \cup {[name |-> <<<<"a">>, <<"docx">>>>, type |-> DOCX, corrupt |-> FALSE, value |-> v] :
             v \in {<<>>, <<"d">>, <<" ">>}}
    \cup {[name |-> <<<<"a">>, <<"docx">>>>, type |-> DOCX, corrupt |-> TRUE]}

\* file.name
FileName(file) == Join(file.name, <<".">>)

\* What the title and the content field can be typed to.
TitleInputs == {<<>>, <<"T">>}
TextInputs == {<<>>, <<"d">>}

\* The answers of the completion service the Notes page is run against.
NotesUpstream ==
    {r \in UpstreamResponses :
        \/ r.rejected
        \/ r.status = 429
        \/ r.status = 200 /\ r.body.shape = "text"
        \/ r.status = 200 /\ r.body.shape = "tool" /\ r.body.arguments.json = "null"
        \/ r.status = 200 /\ r.body.shape = "tool" /\ r.body.arguments.json = "object"
             /\ DOMAIN r.body.arguments.value \in
                  {{"summary", "keywords", "mindmap"}, {"keywords"}}}

\* The page after its first render and its mount effect (fetchNotes is under way).
NotesInit ==
    [notes |-> <<>>, loading |-> TRUE, processing |-> FALSE, noteTitle |-> <<>>,
     noteText |-> <<>>, extracting |-> FALSE,
     \* selectedFile: a one-element list, <<>> for null
     selectedFile |-> <<>>,
     \* awaited: text extractions, handleSubmit's calls, deletes, list reads
     extracts |-> <<>>, submits |-> <<>>, deletes |-> <<>>,
     fetches |-> <<[st |-> "sent", data |-> <<>>]>>,
     \* awaited: handleRegenerate's calls
     regens |-> <<>>]

\* fetchNotes up to its await, as the last call of a handler.
StartFetch(pg) ==
    [pg EXCEPT !.loading = TRUE, !.fetches = Append(@, [st |-> "sent", data |-> <<>>])]

\* onChange of the title field (disabled while processing).
SetNoteTitle(v) ==
    /\ ~notes.processing
    /\ v # notes.noteTitle
    /\ notes' = [notes EXCEPT !.noteTitle = v]
    /\ toast' = ""
    /\ UNCHANGED <<store, nextId, clock, fn>>

\* onChange of the content field (disabled while processing or extracting).
SetNoteText(v) ==
    /\ ~notes.processing /\ ~notes.extracting
    /\ v # notes.noteText
    /\ notes' = [notes EXCEPT !.noteText = v]
    /\ toast' = ""
    /\ UNCHANGED <<store, nextId, clock, fn>>

\* The media types handleFileChange accepts.
MutAccepted(file) == file.type # ""
Accepted(file) == file.type = PDF \/ file.type = DOCX

\* handleFileChange up to its await (the upload control is disabled while processing).
HandleFileChange(file) ==
    /\ ~notes.processing
    /\ IF Accepted(file)
       THEN /\ Len(notes.extracts) < MaxExtracts
            /\ notes' = [notes EXCEPT !.selectedFile = <<file>>,
                                      !.noteTitle = Head(file.name),
                                      !.extracting = TRUE,
                                      !.extracts = Append(@, file)]
            /\ toast' = ""
       ELSE /\ toast' = "Please upload a PDF or DOCX file"
            /\ UNCHANGED notes
    /\ UNCHANGED <<store, nextId, clock, fn>>

\* handleFileChange from the end of the extraction on.
MutHandleFileChangeReturn(k) ==
    /\ k \in 1 .. Len(notes.extracts)
    /\ LET file == notes.extracts[k]
           got == IF file.type = PDF THEN ExtractTextFromPDF(file)
                  ELSE ExtractTextFromDOCX(file)
       IN  IF got.threw
           THEN /\ toast' = "Failed to extract text from file. Please try pasting the text manually."
                /\ notes' = [notes EXCEPT !.noteText = <<>>, !.extracting = FALSE,
                                          !.extracts = RemoveAt(@, k)]
           ELSE /\ toast' = IF file.type = PDF THEN "PDF text extracted successfully!"
                            ELSE "DOCX text extracted successfully!"
                /\ notes' = [notes EXCEPT !.noteText = got.text, !.extracting = FALSE,
                                          !.extracts = RemoveAt(@, k)]
    /\ UNCHANGED <<store, nextId, clock, fn>>
HandleFileChangeReturn(k) ==
    /\ k \in 1 .. Len(notes.extracts)
    /\ LET file == notes.extracts[k]
           got == IF file.type = PDF THEN ExtractTextFromPDF(file)
                  ELSE ExtractTextFromDOCX(file)
       IN  IF got.threw
           THEN /\ toast' = "Failed to extract text from file. Please try pasting the text manually."
                /\ notes' = [notes EXCEPT !.extracting = FALSE, !.extracts = RemoveAt(@, k)]
           ELSE /\ toast' = IF file.type = PDF THEN "PDF text extracted successfully!"
                            ELSE "DOCX text extracted successfully!"
                /\ notes' = [notes EXCEPT !.noteText = got.text, !.extracting = FALSE,
                                          !.extracts = RemoveAt(@, k)]
    /\ UNCHANGED <<store, nextId, clock, fn>>

\* Rows this behaviour can still create, counting the Notes calls under way.
RoomForNote == nextId + Len(notes.submits) <= MaxRows

\* handleSubmit up to its await; the first free invocation of process-note
\* takes the call.
HandleSubmit ==
    /\ ~notes.processing /\ ~notes.extracting
    /\ IF user = "" \/ notes.noteTitle = <<>> \/ notes.noteText = <<>>
       THEN /\ toast' = "Please provide both title and text"
            /\ UNCHANGED <<notes, fn>>
       ELSE /\ RoomForNote
            /\ \E i \in Invocations :
                 /\ fn[i].pc = "idle"
                 /\ \A j \in 1 .. i - 1 : fn[j].pc # "idle"
                 /\ notes' = [notes EXCEPT
                       !.processing = TRUE,
                       !.submits = Append(@, [stage |-> "ai", call |-> i,
                                              noteTitle |-> notes.noteTitle,
                                              noteText |-> notes.noteText,
                                              selectedFile |-> notes.selectedFile])]
                 /\ fn' = [fn EXCEPT ![i] = Serve([method |-> "POST", json |-> TRUE,
                                                   title |-> notes.noteTitle,
                                                   text |-> notes.noteText])]
            /\ toast' = ""
    /\ UNCHANGED <<store, nextId, clock>>

\* supabase.functions.invoke: { data, error } from the function's response.
InvokeResult(resp) ==
    IF resp.status < 200 \/ resp.status > 299 THEN [error |-> TRUE]
    ELSE IF "body" \in DOMAIN resp THEN [error |-> FALSE, isNull |-> FALSE, data |-> resp.body]
    ELSE [error |-> FALSE, isNull |-> TRUE]

\* The row handleSubmit inserts: an undefined or null value leaves the column NULL.
NotePayload(c, aiData) ==
    LET base == [user_id |-> user, title |-> c.noteTitle, original_text |-> c.noteText]
        ai == Restrict(aiData, DOMAIN aiData \cap {"summary", "keywords", "questions", "mindmap"})
        file == IF c.selectedFile = <<>> THEN <<>>
                ELSE [file_name |-> FileName(c.selectedFile[1])]
    IN  [k \in DOMAIN base \cup DOMAIN ai \cup DOMAIN file |->
            IF k \in DOMAIN base THEN base[k]
            ELSE IF k \in DOMAIN ai THEN ai[k] ELSE file[k]]

\* handleSubmit from the answer of process-note to the insert.
HandleSubmitInvoked(k) ==
    /\ k \in 1 .. Len(notes.submits)
    /\ notes.submits[k].stage = "ai"
    /\ fn[notes.submits[k].call].pc = "done"
    /\ LET c == notes.submits[k]
           got == InvokeResult(fn[c.call].resp)
       IN  /\ fn' = [fn EXCEPT ![c.call] = FnIdle]
           /\ IF got.error \/ got.isNull
              THEN /\ toast' = "Failed to process note"
                   /\ notes' = [notes EXCEPT !.processing = FALSE,
                                             !.submits = RemoveAt(@, k)]
              ELSE /\ toast' = ""
                   /\ notes' = [notes EXCEPT !.submits[k] =
                                   [stage |-> "insert", payload |-> NotePayload(c, got.data)]]
    /\ UNCHANGED <<store, nextId, clock>>

\* handleSubmit from the answer of the insert on.
MutHandleSubmitInserted(k, outcome) ==
    /\ k \in 1 .. Len(notes.submits)
    /\ notes.submits[k].stage = "insert"
    /\ LET payload == notes.submits[k].payload
           done == outcome = "ok" /\ InsertAllowed("notes", user, payload)
       IN  IF done
           THEN /\ Len(notes.fetches) < MaxFetch
                /\ store' = [store EXCEPT !["notes"] = InsertRow("notes", user, payload)]
                /\ nextId' = nextId + 1
                /\ clock' = clock + 1
                /\ toast' = "Note processed and saved!"
                /\ notes' = StartFetch([notes EXCEPT !.noteTitle = <<>>, !.noteText = <<>>,
                                                     !.selectedFile = <<>>,
                                                     !.processing = FALSE,
                                                     !.submits = RemoveAt(@, k)])
           ELSE /\ toast' = "Failed to process note"
                /\ UNCHANGED <<notes, store, nextId, clock>>
    /\ UNCHANGED fn
HandleSubmitInserted(k, outcome) ==
    /\ k \in 1 .. Len(notes.submits)
    /\ notes.submits[k].stage = "insert"
    /\ LET payload == notes.submits[k].payload
           done == outcome = "ok" /\ InsertAllowed("notes", user, payload)
       IN  IF done
           THEN /\ Len(notes.fetches) < MaxFetch
                /\ store' = [store EXCEPT !["notes"] = InsertRow("notes", user, payload)]
                /\ nextId' = nextId + 1
                /\ clock' = clock + 1
                /\ toast' = "Note processed and saved!"
                /\ notes' = StartFetch([notes EXCEPT !.noteTitle = <<>>, !.noteText = <<>>,
                                                     !.selectedFile = <<>>,
                                                     !.processing = FALSE,
                                                     !.submits = RemoveAt(@, k)])
           ELSE /\ toast' = "Failed to process note"
                /\ notes' = [notes EXCEPT !.processing = FALSE, !.submits = RemoveAt(@, k)]
                /\ UNCHANGED <<store, nextId, clock>>
    /\ UNCHANGED fn

\* handleDelete up to its await: the delete button of a listed note.
HandleDelete(id) ==
    /\ \E n \in 1 .. Len(notes.notes) : notes.notes[n].id = id
    /\ Len(notes.deletes) < MaxFetch
    /\ notes' = [notes EXCEPT !.deletes = Append(@, id)]
    /\ toast' = ""
    /\ UNCHANGED <<store, nextId, clock, fn>>

\* handleDelete from the answer of the delete on.
HandleDeleteReturn(k, outcome) ==
    /\ k \in 1 .. Len(notes.deletes)
    /\ IF outcome = "ok"
       THEN /\ Len(notes.fetches) < MaxFetch
            /\ store' = [store EXCEPT !["notes"] = DeleteWhereId("notes", user, notes.deletes[k])]
            /\ toast' = "Note deleted"
            /\ notes' = StartFetch([notes EXCEPT !.deletes = RemoveAt(@, k)])
       ELSE /\ toast' = "Failed to delete note"
            /\ notes' = [notes EXCEPT !.deletes = RemoveAt(@, k)]
            /\ UNCHANGED store
    /\ UNCHANGED <<nextId, clock, fn>>

\* The keys of process-note's answer that hold JSON null: the mindmap of the
\* result built when the completion service sent no tool call.
NullKeys(call) ==
    IF call.resp.status = 200 /\ "response" \in DOMAIN call
       /\ ~call.response.rejected /\ call.response.body.shape = "text"
    THEN {"mindmap"} ELSE {}

\* The object handleRegenerate passes to update(): an undefined value leaves
\* its key out, a null value sets the column to NULL.
RegenerateFields(aiData) ==
    Restrict(aiData, DOMAIN aiData \cap {"summary", "keywords", "questions", "mindmap"})

\* handleRegenerate up to its await, on the n-th listed note (the button is
\* disabled while processing); the first free invocation of process-note takes
\* the call.
HandleRegenerate(n) ==
    /\ ~notes.processing
    /\ n \in 1 .. Len(notes.notes)
    /\ LET note == notes.notes[n]
       IN  IF note.title = <<>>
           THEN UNCHANGED <<notes, fn>>
           ELSE \E i \in Invocations :
                  /\ fn[i].pc = "idle"
                  /\ \A j \in 1 .. i - 1 : fn[j].pc # "idle"
                  /\ notes' = [notes EXCEPT
                        !.processing = TRUE,
                        !.regens = Append(@, [stage |-> "ai", call |-> i, id |-> note.id])]
                  /\ fn' = [fn EXCEPT ![i] =
                               Serve([method |-> "POST", json |-> TRUE, title |-> note.title,
                                      text |-> IF IsNull(note, "summary") THEN <<>>
                                               ELSE note.summary])]
    /\ toast' = ""
    /\ UNCHANGED <<store, nextId, clock>>

\* handleRegenerate from the answer of process-note to the update.
MutHandleRegenerateInvoked(k) ==
    /\ k \in 1 .. Len(notes.regens)
    /\ notes.regens[k].stage = "ai"
    /\ fn[notes.regens[k].call].pc = "done"
    /\ LET c == notes.regens[k]
           got == InvokeResult(fn[c.call].resp)
       IN  /\ fn' = [fn EXCEPT ![c.call] = FnIdle]
           /\ IF got.error \/ got.isNull
              THEN /\ toast' = "Failed to regenerate note"
                   /\ notes' = [notes EXCEPT !.regens = RemoveAt(@, k)]
              ELSE /\ toast' = ""
                   /\ notes' = [notes EXCEPT !.regens[k] =
                                   [stage |-> "update", id |-> c.id,
                                    fields |-> RegenerateFields(got.data),
                                    nulls |-> NullKeys(fn[c.call])]]
    /\ UNCHANGED <<store, nextId, clock>>

HandleRegenerateInvoked(k) ==
    /\ k \in 1 .. Len(notes.regens)
    /\ notes.regens[k].stage = "ai"
    /\ fn[notes.regens[k].call].pc = "done"
    /\ LET c == notes.regens[k]
           got == InvokeResult(fn[c.call].resp)
       IN  /\ fn' = [fn EXCEPT ![c.call] = FnIdle]
           /\ IF got.error \/ got.isNull
              THEN /\ toast' = "Failed to regenerate note"
                   /\ notes' = [notes EXCEPT !.processing = FALSE,
                                             !.regens = RemoveAt(@, k)]
              ELSE /\ toast' = ""
                   /\ notes' = [notes EXCEPT !.regens[k] =
                                   [stage |-> "update", id |-> c.id,
                                    fields |-> RegenerateFields(got.data),
                                    nulls |-> NullKeys(fn[c.call])]]
    /\ UNCHANGED <<store, nextId, clock>>

\* handleRegenerate from the answer of the update on.
HandleRegenerateUpdated(k, outcome) ==
    /\ k \in 1 .. Len(notes.regens)
    /\ notes.regens[k].stage = "update"
    /\ LET c == notes.regens[k]
           upd == UpdateWhereIdNulls("notes", user, c.id, c.fields, c.nulls)
       IN  IF outcome = "ok" /\ ~upd.error
           THEN /\ Len(notes.fetches) < MaxFetch
                /\ store' = [store EXCEPT !["notes"] = upd.table]
                /\ toast' = "Note regenerated!"
                /\ notes' = StartFetch([notes EXCEPT !.processing = FALSE,
                                                     !.regens = RemoveAt(@, k)])
           ELSE /\ toast' = "Failed to regenerate note"
                /\ notes' = [notes EXCEPT !.processing = FALSE, !.regens = RemoveAt(@, k)]
                /\ UNCHANGED store
    /\ UNCHANGED <<nextId, clock, fn>>

\* fetchNotes: the store runs the select (or the request fails).
FetchNotesRead(k, outcome) ==
    /\ k \in 1 .. Len(notes.fetches)
    /\ notes.fetches[k].st = "sent"
    /\ notes' = [notes EXCEPT !.fetches[k] =
                   IF outcome = "ok"
                   THEN [st |-> "data", data |-> ListDesc("notes", user)]
                   ELSE [st |-> "error", data |-> <<>>]]
    /\ toast' = ""
    /\ UNCHANGED <<store, nextId, clock, fn>>

\* fetchNotes from the answer of the select on.
FetchNotesReturn(k) ==
    /\ k \in 1 .. Len(notes.fetches)
    /\ notes.fetches[k].st # "sent"
    /\ IF notes.fetches[k].st = "error"
       THEN /\ toast' = "Failed to load notes"
            /\ notes' = [notes EXCEPT !.loading = FALSE, !.fetches = RemoveAt(@, k)]
       ELSE /\ toast' = ""
            /\ notes' = [notes EXCEPT !.notes = notes.fetches[k].data,
                                      !.loading = FALSE, !.fetches = RemoveAt(@, k)]
    /\ UNCHANGED <<store, nextId, clock, fn>>

\* The completion service answers invocation i, which runs to its end.
NotesUpstreamAnswer(i, response) ==
    /\ EdgeFetchReturn(i, response)
    /\ toast' = ""
    /\ UNCHANGED <<store, nextId, clock, notes>>

(* ------------------------------------------------------------------ *)
(* The gateway: the statements of the pages, run for any identity      *)
(* ------------------------------------------------------------------ *)
\* A payload for table t with its NOT NULL columns, for owner.
GwPayload(t, owner) ==
    [c \in Required(t) |->
        CASE c = "user_id" -> owner
          [] c = "title" -> <<"T">>
          [] c = "questions" -> <<>>
          [] c = "date" -> 1]

\* The columns the pages' updates write (regenerate, toggle, chat), or, for a
\* table no page updates, its title; and an update that gives the row away.
GwUpdates(t) ==
    {CASE t = "notes" -> [summary |-> <<"s">>]
       [] t = "study_tasks" -> [completed |-> TRUE]
       [] t = "chat_sessions" -> [messages |-> <<"m">>]
       [] OTHER -> [title |-> <<"U">>]}
    \cup {[user_id |-> o] : o \in Users}

\* t: the table the statements of this behaviour name.
GwInit ==
    [t |-> "notes", uid |-> "u1", op |-> "none", error |-> FALSE, rows |-> {}, deleted |-> {}]

\* The ids handed out so far: the pages send ids they have read.
KnownIds == 0 .. nextId - 1

\* .insert(payload) by uid, the payload naming owner.
GwInsert(uid, t, owner) ==
    /\ t = gw.t
    /\ nextId <= MaxRows
    /\ IF InsertAllowed(t, uid, GwPayload(t, owner))
       THEN /\ store' = [store EXCEPT ![t] = InsertRow(t, uid, GwPayload(t, owner))]
            /\ nextId' = nextId + 1
            /\ clock' = clock + 1
            /\ gw' = [gw EXCEPT !.uid = uid, !.op = "insert", !.error = FALSE, !.rows = {}]
       ELSE /\ gw' = [gw EXCEPT !.uid = uid, !.op = "insert", !.error = TRUE, !.rows = {}]
            /\ UNCHANGED <<store, nextId, clock>>

\* .select('*').eq('user_id', owner) by uid.
GwSelect(uid, t, owner) ==
    /\ t = gw.t
    /\ gw' = [gw EXCEPT !.uid = uid, !.op = "select", !.error = FALSE,
                        !.rows = {r \in Visible(t, uid) : r.user_id = owner}]
    /\ UNCHANGED <<store, nextId, clock>>

\* .update(fields).eq('id', id) by uid.
GwUpdate(uid, t, id, fields) ==
    /\ t = gw.t
    /\ id \in KnownIds
    /\ LET res == UpdateWhereId(t, uid, id, fields)
       IN  /\ store' = [store EXCEPT ![t] = res.table]
           /\ gw' = [gw EXCEPT !.uid = uid, !.op = "update", !.error = res.error, !.rows = {}]
    /\ UNCHANGED <<nextId, clock>>

\* .delete().eq('id', id) by uid; the request can fail on its way.
GwDelete(uid, t, id, outcome) ==
    /\ t = gw.t
    /\ id \in KnownIds
    /\ IF outcome = "ok"
       THEN /\ store' = [store EXCEPT ![t] = DeleteWhereId(t, uid, id)]
            /\ gw' = [gw EXCEPT !.uid = uid, !.op = "delete", !.error = FALSE, !.rows = {},
                                !.deleted = @ \cup {[uid |-> uid, id |-> id]}]
       ELSE /\ gw' = [gw EXCEPT !.uid = uid, !.op = "delete", !.error = TRUE, !.rows = {}]
            /\ UNCHANGED store
    /\ UNCHANGED <<nextId, clock>>

(* ------------------------------------------------------------------ *)
(* The Past Papers page                                                *)
(* ------------------------------------------------------------------ *)
\* What supabase.functions.invoke('analyze-paper') can give back: an error, a
\* null body, an object with the three fields or without them.
AnalyzeResults ==
    {[error |-> TRUE], [error |-> FALSE, isNull |-> TRUE],
     [error |-> FALSE, isNull |-> FALSE,
      data |-> [topics |-> <<"t1">>, predictions |-> <<"p1">>, analysis |-> <<"a">>]],
     [error |-> FALSE, isNull |-> FALSE, data |-> [topics |-> <<"t1">>]]}

\* The page after its first render and its mount effect (fetchPapers is under way).
PapersInit ==
    [papers |-> <<>>, loading |-> TRUE, processing |-> FALSE,
     paperTitle |-> <<>>, paperText |-> <<>>,
     submits |-> <<>>, fetches |-> <<[st |-> "sent", data |-> <<>>]>>]

\* onChange of the two fields (disabled while processing).
SetPaperTitle(v) ==
    /\ ~papers.processing
    /\ v # papers.paperTitle
    /\ papers' = [papers EXCEPT !.paperTitle = v]
    /\ toast' = ""
    /\ UNCHANGED <<store, nextId, clock>>
SetPaperText(v) ==
    /\ ~papers.processing
    /\ v # papers.paperText
    /\ papers' = [papers EXCEPT !.paperText = v]
    /\ toast' = ""
    /\ UNCHANGED <<store, nextId, clock>>

\* handleSubmit up to its await on analyze-paper.
MutPapersHandleSubmit ==
    /\ ~papers.processing
    /\ nextId + Len(papers.submits) <= MaxRows
    /\ papers' = [papers EXCEPT
          !.processing = TRUE,
          !.submits = Append(@, [stage |-> "ai", paperTitle |-> papers.paperTitle,
                                 paperText |-> papers.paperText])]
    /\ toast' = ""
    /\ UNCHANGED <<store, nextId, clock>>
PapersHandleSubmit ==
    /\ ~papers.processing
    /\ IF user = "" \/ papers.paperTitle = <<>> \/ papers.paperText = <<>>
       THEN /\ toast' = "Please provide both title and content"
            /\ UNCHANGED papers
       ELSE /\ nextId + Len(papers.submits) <= MaxRows
            /\ papers' = [papers EXCEPT
                  !.processing = TRUE,
                  !.submits = Append(@, [stage |-> "ai", paperTitle |-> papers.paperTitle,
                                         paperText |-> papers.paperText])]
            /\ toast' = ""
    /\ UNCHANGED <<store, nextId, clock>>

\* The row handleSubmit inserts.
PaperPayload(c, aiData) ==
    LET base == [user_id |-> user, title |-> c.paperTitle]
        ai == Restrict(aiData, DOMAIN aiData \cap {"topics", "predictions", "analysis"})
    IN  [k \in DOMAIN base \cup DOMAIN ai |-> IF k \in DOMAIN base THEN base[k] ELSE ai[k]]

\* handleSubmit from the answer of analyze-paper to the insert.
PapersAnalyzed(k, got) ==
    /\ k \in 1 .. Len(papers.submits)
    /\ papers.submits[k].stage = "ai"
    /\ IF got.error \/ got.isNull
       THEN /\ toast' = "Failed to analyze past paper"
            /\ papers' = [papers EXCEPT !.processing = FALSE, !.submits = RemoveAt(@, k)]
       ELSE /\ toast' = ""
            /\ papers' = [papers EXCEPT !.submits[k] =
                            [stage |-> "insert",
                             payload |-> PaperPayload(papers.submits[k], got.data)]]
    /\ UNCHANGED <<store, nextId, clock>>

\* handleSubmit from the answer of the insert on.
PapersInserted(k, outcome) ==
    /\ k \in 1 .. Len(papers.submits)
    /\ papers.submits[k].stage = "insert"
    /\ LET payload == papers.submits[k].payload
       IN  IF outcome = "ok" /\ InsertAllowed("past_papers", user, payload)
           THEN /\ Len(papers.fetches) < MaxFetch
                /\ store' = [store EXCEPT !["past_papers"] = InsertRow("past_papers", user, payload)]
                /\ nextId' = nextId + 1
                /\ clock' = clock + 1
                /\ toast' = "Past paper analyzed!"
                /\ papers' = [papers EXCEPT
                      !.paperTitle = <<>>, !.paperText = <<>>, !.processing = FALSE,
                      !.submits = RemoveAt(@, k), !.loading = TRUE,
                      !.fetches = Append(@, [st |-> "sent", data |-> <<>>])]
           ELSE /\ toast' = "Failed to analyze past paper"
                /\ papers' = [papers EXCEPT !.processing = FALSE, !.submits = RemoveAt(@, k)]
                /\ UNCHANGED <<store, nextId, clock>>

\* fetchPapers: the store runs the select (or the request fails).
FetchPapersRead(k, outcome) ==
    /\ k \in 1 .. Len(papers.fetches)
    /\ papers.fetches[k].st = "sent"
    /\ papers' = [papers EXCEPT !.fetches[k] =
                    IF outcome = "ok"
                    THEN [st |-> "data", data |-> ListDesc("past_papers", user)]
                    ELSE [st |-> "error", data |-> <<>>]]
    /\ toast' = ""
    /\ UNCHANGED <<store, nextId, clock>>

\* fetchPapers from the answer of the select on.
FetchPapersReturn(k) ==
    /\ k \in 1 .. Len(papers.fetches)
    /\ papers.fetches[k].st # "sent"
    /\ IF papers.fetches[k].st = "error"
       THEN /\ toast' = "Failed to load past papers"
            /\ papers' = [papers EXCEPT !.loading = FALSE, !.fetches = RemoveAt(@, k)]
       ELSE /\ toast' = ""
            /\ papers' = [papers EXCEPT !.papers = papers.fetches[k].data,
                                        !.loading = FALSE, !.fetches = RemoveAt(@, k)]
    /\ UNCHANGED <<store, nextId, clock>>

(* ------------------------------------------------------------------ *)
(* The Planner page                                                    *)
(* ------------------------------------------------------------------ *)
\* The value of an empty date field (''); a date is a day number otherwise.
NoDate == 0
DateInputs == {NoDate, 1, 2}
TaskTitleInputs == {<<>>, <<"T">>}
TopicAndDescriptionInputs == {<<>>, <<"D">>}

\* The tasks generate-study-plan can name: complete, or without a title.
PlanTasks ==
    {[title |-> <<"G">>, description |-> <<"g">>, date |-> 1], [date |-> 2]}
\* What supabase.functions.invoke('generate-study-plan') can give back: an
\* error, a null body, an object without tasks, an object with a list of tasks.
PlanResults ==
    {[error |-> TRUE], [error |-> FALSE, isNull |-> TRUE],
     [error |-> FALSE, isNull |-> FALSE, data |-> [plan |-> <<>>]]}
    \cup {[error |-> FALSE, isNull |-> FALSE, data |-> [tasks |-> ts]] :
            ts \in {<<>>} \cup {<<a>> : a \in PlanTasks}
                   \cup {<<a, b>> : a \in PlanTasks, b \in PlanTasks}}

\* .order('date', { ascending: true }): the lists with the rows by date; rows of
\* the same date come in any order.
SortedByDate(rows) ==
    {l \in [1 .. Cardinality(rows) -> rows] :
        /\ \A r \in rows : \E n \in DOMAIN l : l[n] = r
        /\ \A n \in DOMAIN l : \A m \in DOMAIN l : n < m => l[n].date <= l[m].date}

\* The page after its first render and its mount effect (fetchTasks is under way).
\* upcomingTasks and completedTasks, the two lists the page renders from tasks.
\* A date column holds a day; new Date(task.date) is the start of that day, and
\* now, the time of the render, is counted in half days.
UpcomingTasks(tasks, now) ==
    {n \in DOMAIN tasks :
        (IsNull(tasks[n], "completed") \/ ~tasks[n].completed) /\ 2 * tasks[n].date >= now}
CompletedTasks(tasks) ==
    {n \in DOMAIN tasks : ~IsNull(tasks[n], "completed") /\ tasks[n].completed}

PlannerInit ==
    [tasks |-> <<>>, loading |-> TRUE, generating |-> FALSE,
     taskTitle |-> <<>>, taskDescription |-> <<>>, taskDate |-> NoDate,
     plannerTopic |-> <<>>, examDate |-> NoDate,
     \* awaited: handleAddTask's inserts, generateStudyPlan's calls, list reads
     adds |-> <<>>, plans |-> <<>>, fetches |-> <<[st |-> "sent", data |-> <<>>]>>,
     \* awaited: handleToggleComplete's updates
     toggles |-> <<>>]

\* fetchTasks up to its await, as the last call of a handler.
StartFetchTasks(pg) ==
    [pg EXCEPT !.loading = TRUE, !.fetches = Append(@, [st |-> "sent", data |-> <<>>])]

\* onChange of the fields of the two forms; those of the plan form are disabled
\* while generating.
SetTaskField(field, v) ==
    /\ field \in {"taskTitle", "taskDescription", "taskDate"}
         \/ (field \in {"plannerTopic", "examDate"} /\ ~planner.generating)
    /\ v # planner[field]
    /\ planner' = [planner EXCEPT ![field] = v]
    /\ toast' = ""
    /\ UNCHANGED <<store, nextId, clock>>

\* Rows this behaviour can still create, counting the Planner's calls under way.
RECURSIVE PlanRows(_)
PlanRows(plans) ==
    IF plans = <<>> THEN 0
    ELSE (IF Head(plans).stage = "insert" THEN Len(Head(plans).rows) ELSE 0)
         + PlanRows(Tail(plans))
RoomForTasks(n) ==
    nextId + Len(planner.adds) + PlanRows(planner.plans) + n - 1 <= MaxRows

\* handleAddTask up to its await.
HandleAddTask ==
    /\ IF user = "" \/ planner.taskTitle = <<>> \/ planner.taskDate = NoDate
       THEN /\ toast' = "Please provide title and date"
            /\ UNCHANGED planner
       ELSE /\ RoomForTasks(1)
            /\ planner' = [planner EXCEPT !.adds = Append(@,
                  [user_id |-> user, title |-> planner.taskTitle,
                   description |-> planner.taskDescription,
                   date |-> planner.taskDate, completed |-> FALSE])]
            /\ toast' = ""
    /\ UNCHANGED <<store, nextId, clock>>

\* handleAddTask from the answer of the insert on.
HandleAddTaskReturn(k, outcome) ==
    /\ k \in 1 .. Len(planner.adds)
    /\ IF outcome = "ok" /\ InsertAllowed("study_tasks", user, planner.adds[k])
       THEN /\ Len(planner.fetches) < MaxFetch
            /\ store' = [store EXCEPT
                  !["study_tasks"] = InsertRow("study_tasks", user, planner.adds[k])]
            /\ nextId' = nextId + 1
            /\ clock' = clock + 1
            /\ toast' = "Task added!"
            /\ planner' = StartFetchTasks([planner EXCEPT
                  !.taskTitle = <<>>, !.taskDescription = <<>>, !.taskDate = NoDate,
                  !.adds = RemoveAt(@, k)])
       ELSE /\ toast' = "Failed to add task"
            /\ planner' = [planner EXCEPT !.adds = RemoveAt(@, k)]
            /\ UNCHANGED <<store, nextId, clock>>

\* generateStudyPlan up to its await on generate-study-plan.
GenerateStudyPlan ==
    /\ ~planner.generating
    /\ IF planner.plannerTopic = <<>> \/ planner.examDate = NoDate
       THEN /\ toast' = "Please provide topic and exam date"
            /\ UNCHANGED planner
       ELSE /\ planner' = [planner EXCEPT
                  !.generating = TRUE,
                  !.plans = Append(@, [stage |-> "ai", topic |-> planner.plannerTopic,
                                       examDate |-> planner.examDate])]
            /\ toast' = ""
    /\ UNCHANGED <<store, nextId, clock>>

\* tasksToInsert: an undefined value leaves its column out.
TasksToInsert(tasks) ==
    [n \in DOMAIN tasks |->
        LET own == [user_id |-> user, completed |-> FALSE]
            ai == Restrict(tasks[n], DOMAIN tasks[n] \cap {"title", "description", "date"})
        IN  [c \in DOMAIN own \cup DOMAIN ai |-> IF c \in DOMAIN own THEN own[c] ELSE ai[c]]]

\* generateStudyPlan from the answer of generate-study-plan to the insert.
GenerateStudyPlanInvoked(k, got) ==
    /\ k \in 1 .. Len(planner.plans)
    /\ planner.plans[k].stage = "ai"
    /\ IF got.error \/ got.isNull \/ "tasks" \notin DOMAIN got.data
       THEN /\ toast' = "Failed to generate study plan"
            /\ planner' = [planner EXCEPT !.generating = FALSE, !.plans = RemoveAt(@, k)]
       ELSE /\ RoomForTasks(Len(got.data.tasks))
            /\ toast' = ""
            /\ planner' = [planner EXCEPT !.plans[k] =
                              [stage |-> "insert", rows |-> TasksToInsert(got.data.tasks)]]
    /\ UNCHANGED <<store, nextId, clock>>

\* INSERT of a list of rows in one statement: all of them or none.
RECURSIVE MutInsertRows(_, _, _, _)
MutInsertRows(table, rows, id, now) ==
    IF rows = <<>> THEN table
    ELSE table \cup {NewRow("study_tasks", Head(rows), id, now)}

RECURSIVE InsertRows(_, _, _, _)
InsertRows(table, rows, id, now) ==
    IF rows = <<>> THEN table
    ELSE InsertRows(table \cup {NewRow("study_tasks", Head(rows), id, now)},
                    Tail(rows), id + 1, now)

\* generateStudyPlan from the answer of the insert on.
GenerateStudyPlanInserted(k, outcome) ==
    /\ k \in 1 .. Len(planner.plans)
    /\ planner.plans[k].stage = "insert"
    /\ LET rows == planner.plans[k].rows
       IN  IF /\ outcome = "ok"
              /\ \A n \in DOMAIN rows : InsertAllowed("study_tasks", user, rows[n])
           THEN /\ Len(planner.fetches) < MaxFetch
                /\ store' = [store EXCEPT
                      !["study_tasks"] = InsertRows(store["study_tasks"], rows, nextId, clock)]
                /\ nextId' = nextId + Len(rows)
                /\ clock' = clock + 1
                /\ toast' = "Study plan generated!"
                /\ planner' = StartFetchTasks([planner EXCEPT
                      !.plannerTopic = <<>>, !.examDate = NoDate,
                      !.generating = FALSE, !.plans = RemoveAt(@, k)])
           ELSE /\ toast' = "Failed to generate study plan"
                /\ planner' = [planner EXCEPT !.generating = FALSE, !.plans = RemoveAt(@, k)]
                /\ UNCHANGED <<store, nextId, clock>>

\* handleToggleComplete up to its await: the checkbox of the n-th listed task,
\* with the id and the completed flag the list shows.
HandleToggleComplete(n) ==
    /\ n \in 1 .. Len(planner.tasks)
    /\ Len(planner.toggles) < MaxToggles
    /\ planner' = [planner EXCEPT !.toggles = Append(@,
          [id |-> planner.tasks[n].id, fields |-> [completed |-> ~planner.tasks[n].completed]])]
    /\ toast' = ""
    /\ UNCHANGED <<store, nextId, clock>>

\* handleToggleComplete from the answer of the update on.  The list read it
\* starts remembers the update it follows (history: toggle).
HandleToggleCompleteReturn(k, outcome) ==
    /\ k \in 1 .. Len(planner.toggles)
    /\ LET c == planner.toggles[k]
           upd == UpdateWhereId("study_tasks", user, c.id, c.fields)
       IN  IF outcome = "ok" /\ ~upd.error
           THEN /\ Len(planner.fetches) < MaxToggles
                /\ store' = [store EXCEPT !["study_tasks"] = upd.table]
                /\ toast' = ""
                /\ planner' = [planner EXCEPT
                      !.toggles = RemoveAt(@, k),
                      !.loading = TRUE,
                      !.fetches = Append(@, [st |-> "sent", data |-> <<>>, toggle |-> c])]
           ELSE /\ toast' = "Failed to update task"
                /\ planner' = [planner EXCEPT !.toggles = RemoveAt(@, k)]
                /\ UNCHANGED store
    /\ UNCHANGED <<nextId, clock>>

\* fetchTasks: the store runs the select (or the request fails).
FetchTasksRead(k, outcome) ==
    /\ k \in 1 .. Len(planner.fetches)
    /\ planner.fetches[k].st = "sent"
    /\ IF outcome = "ok"
       THEN \E l \in SortedByDate({r \in Visible("study_tasks", user) : r.user_id = user}) :
               planner' = [planner EXCEPT !.fetches[k] = [@ EXCEPT !.st = "data", !.data = l]]
       ELSE planner' = [planner EXCEPT !.fetches[k] = [@ EXCEPT !.st = "error"]]
    /\ toast' = ""
    /\ UNCHANGED <<store, nextId, clock>>

\* fetchTasks from the answer of the select on.
FetchTasksReturn(k) ==
    /\ k \in 1 .. Len(planner.fetches)
    /\ planner.fetches[k].st # "sent"
    /\ IF planner.fetches[k].st = "error"
       THEN /\ toast' = "Failed to load tasks"
            /\ planner' = [planner EXCEPT !.loading = FALSE, !.fetches = RemoveAt(@, k)]
       ELSE /\ toast' = ""
            /\ planner' = [planner EXCEPT !.tasks = planner.fetches[k].data,
                                          !.loading = FALSE, !.fetches = RemoveAt(@, k)]
    /\ UNCHANGED <<store, nextId, clock>>

(* ------------------------------------------------------------------ *)
(* The Chat page                                                       *)
(* ------------------------------------------------------------------ *)
ChatInputs == {<<>>, <<" ">>, <<"h">>}
\* What supabase.functions.invoke('chat-tutor') can give back: an error, a null
\* body, an object with a response or without one.
ChatResults ==
    {[error |-> TRUE], [error |-> FALSE, isNull |-> TRUE],
     [error |-> FALSE, isNull |-> FALSE, data |-> [response |-> <<"r">>]],
     [error |-> FALSE, isNull |-> FALSE, data |-> [usage |-> 1]]}

\* The page after its first render and its mount effect (loadOrCreateSession is
\* under way).  sessionId: a one-element list, <<>> for null.
ChatInit ==
    [messages |-> <<>>, input |-> <<>>, loading |-> FALSE, sessionId |-> <<>>,
     load |-> [stage |-> "select"], sends |-> <<>>]

\* .order('created_at', { ascending: false }).limit(1)
LatestSession ==
    IF ListDesc("chat_sessions", user) = <<>> THEN <<>>
    ELSE <<Head(ListDesc("chat_sessions", user))>>

\* loadOrCreateSession from the answer of the select to its end or to the insert.
LoadSessionReadOn(pg, pgn, outcome) ==
    /\ pg.load.stage = "select"
    /\ IF outcome = "ok" /\ LatestSession # <<>>
       THEN /\ pgn = [pg EXCEPT !.sessionId = <<LatestSession[1].id>>,
                                    !.messages = LatestSession[1].messages,
                                    !.load = [stage |-> "done"]]
       ELSE /\ nextId <= MaxRows
            /\ pgn = [pg EXCEPT !.load = [stage |-> "insert"]]
    /\ toast' = ""
    /\ UNCHANGED <<store, nextId, clock>>

\* loadOrCreateSession from the answer of the insert on.
LoadSessionInsertedOn(pg, pgn, outcome) ==
    /\ pg.load.stage = "insert"
    /\ LET payload == [user_id |-> user, title |-> <<"N">>, messages |-> <<>>]
       IN  IF outcome = "ok" /\ InsertAllowed("chat_sessions", user, payload)
           THEN /\ store' = [store EXCEPT
                      !["chat_sessions"] = InsertRow("chat_sessions", user, payload)]
                /\ nextId' = nextId + 1
                /\ clock' = clock + 1
                /\ pgn = [pg EXCEPT !.sessionId = <<nextId>>, !.load = [stage |-> "done"]]
           ELSE /\ pgn = [pg EXCEPT !.load = [stage |-> "done"]]
                /\ UNCHANGED <<store, nextId, clock>>
    /\ toast' = ""

\* onChange of the message field (disabled while loading).
SetInputOn(pg, pgn, v) ==
    /\ ~pg.loading
    /\ v # pg.input
    /\ pgn = [pg EXCEPT !.input = v]
    /\ toast' = ""
    /\ UNCHANGED <<store, nextId, clock>>

\* handleSend up to its await on chat-tutor: the Enter key in the message field
\* (disabled while loading), or the Send button.
HandleSendOn(pg, pgn) ==
    /\ ~pg.loading
    /\ IF Trim(pg.input) = <<>> \/ user = "" \/ pg.sessionId = <<>>
       THEN pgn = pg
       ELSE LET updatedMessages ==
                    Append(pg.messages, [role |-> "user", content |-> pg.input])
            IN  pgn = [pg EXCEPT
                    !.messages = updatedMessages, !.input = <<>>, !.loading = TRUE,
                    !.sends = Append(@, [stage |-> "ai", updatedMessages |-> updatedMessages,
                                         sessionId |-> pg.sessionId[1]])]
    /\ toast' = ""
    /\ UNCHANGED <<store, nextId, clock>>

\* handleSend from the answer of chat-tutor to the update.
MutHandleSendInvokedOn(pg, pgn, k, got) ==
    /\ k \in 1 .. Len(pg.sends)
    /\ pg.sends[k].stage = "ai"
    /\ IF got.error \/ got.isNull
       THEN /\ toast' = "Failed to get response"
            /\ pgn = [pg EXCEPT !.loading = FALSE, !.sends = RemoveAt(@, k)]
       ELSE LET assistantMessage ==
                    IF "response" \in DOMAIN got.data
                    THEN [role |-> "assistant", content |-> got.data.response]
                    ELSE [role |-> "assistant"]
                finalMessages == Append(pg.sends[k].updatedMessages, assistantMessage)
            IN  /\ toast' = ""
                /\ pgn = [pg EXCEPT
                      !.messages = finalMessages,
                      !.sends[k] = [stage |-> "update",
                                    finalMessages |-> <<Head(finalMessages), assistantMessage>>,
                                    sessionId |-> pg.sends[k].sessionId]]
    /\ UNCHANGED <<store, nextId, clock>>

HandleSendInvokedOn(pg, pgn, k, got) ==
    /\ k \in 1 .. Len(pg.sends)
    /\ pg.sends[k].stage = "ai"
    /\ IF got.error \/ got.isNull
       THEN /\ toast' = "Failed to get response"
            /\ pgn = [pg EXCEPT !.loading = FALSE, !.sends = RemoveAt(@, k)]
       ELSE LET assistantMessage ==
                    IF "response" \in DOMAIN got.data
                    THEN [role |-> "assistant", content |-> got.data.response]
                    ELSE [role |-> "assistant"]
                finalMessages == Append(pg.sends[k].updatedMessages, assistantMessage)
            IN  /\ toast' = ""
                /\ pgn = [pg EXCEPT
                      !.messages = finalMessages,
                      !.sends[k] = [stage |-> "update", finalMessages |-> finalMessages,
                                    sessionId |-> pg.sends[k].sessionId]]
    /\ UNCHANGED <<store, nextId, clock>>

\* handleSend from the answer of the update on; the answer is not looked at.
HandleSendUpdatedOn(pg, pgn, k, outcome) ==
    /\ k \in 1 .. Len(pg.sends)
    /\ pg.sends[k].stage = "update"
    /\ IF outcome = "ok"
       THEN store' = [store EXCEPT !["chat_sessions"] =
                UpdateWhereId("chat_sessions", user, pg.sends[k].sessionId,
                              [messages |-> pg.sends[k].finalMessages,
                               updated_at |-> clock]).table]
       ELSE UNCHANGED store
    /\ pgn = [pg EXCEPT !.loading = FALSE, !.sends = RemoveAt(@, k)]
    /\ toast' = ""
    /\ UNCHANGED <<nextId, clock>>

\* The handlers of the Chat page the router mounts.
LoadSessionRead(outcome) == LoadSessionReadOn(chat, chat', outcome)
LoadSessionInserted(outcome) == LoadSessionInsertedOn(chat, chat', outcome)
SetInput(v) == SetInputOn(chat, chat', v)
HandleSend == HandleSendOn(chat, chat')
HandleSendInvoked(k, got) == HandleSendInvokedOn(chat, chat', k, got)
HandleSendUpdated(k, outcome) == HandleSendUpdatedOn(chat, chat', k, outcome)

(* ------------------------------------------------------------------ *)
(* The Quizzes page                                                    *)
(* ------------------------------------------------------------------ *)
(* The Insights page                                                   *)
(* ------------------------------------------------------------------ *)
\* .order('created_at', { ascending: true }): the rows, oldest first.
RECURSIVE OrderAsc(_)
OrderAsc(rows) ==
    IF rows = {} THEN <<>>
    ELSE LET first == CHOOSE r \in rows : \A o \in rows : r.created_at <= o.created_at
         IN  <<first>> \o OrderAsc(rows \ {first})

\* quiz.score || 0 and quiz.total_questions || 1
ScoreOf(q) == IF IsNull(q, "score") THEN 0 ELSE q.score
TotalOf(q) == IF IsNull(q, "total_questions") \/ q.total_questions = 0 THEN 1
              ELSE q.total_questions
\* Math.round((a / b) * 100) for a >= 0, b > 0
Percentage(a, b) == (200 * a + b) \div (2 * b)
PerformanceData(quizzes) ==
    [n \in DOMAIN quizzes |->
        [name |-> n, score |-> ScoreOf(quizzes[n]), total |-> TotalOf(quizzes[n]),
         percentage |-> Percentage(ScoreOf(quizzes[n]), TotalOf(quizzes[n]))]]
RECURSIVE Sum(_)
Sum(ns) == IF ns = <<>> THEN 0 ELSE Head(ns) + Sum(Tail(ns))

\* The page after its first render and its mount effect (fetchInsights is under
\* way, at its first select).
InsightsInit ==
    [loading |-> TRUE, quizPerformance |-> <<>>, averageScore |-> 0,
     totalQuizzes |-> 0, totalNotes |-> 0, fetch |-> "quizzes"]

\* fetchInsights from the answer of the select on quizzes to the count of the
\* notes; a failed select gives null, which is not told from an empty list.
FetchInsightsQuizzes(outcome) ==
    /\ insights.fetch = "quizzes"
    /\ LET quizzes ==
               IF outcome = "ok"
               THEN OrderAsc({r \in Visible("quizzes", user) :
                                 r.user_id = user /\ r.completed = TRUE})
               ELSE <<>>
           data == PerformanceData(quizzes)
       IN  IF quizzes # <<>>
           THEN insights' = [insights EXCEPT
                   !.quizPerformance = data,
                   !.averageScore =
                       Percentage(Sum([n \in DOMAIN data |-> data[n].score]),
                                  Sum([n \in DOMAIN data |-> data[n].total])),
                   !.totalQuizzes = Len(quizzes),
                   !.fetch = "notes"]
           ELSE insights' = [insights EXCEPT !.fetch = "notes"]
    /\ toast' = ""
    /\ UNCHANGED <<store, nextId, clock>>

\* fetchInsights from the answer of the count on.
FetchInsightsNotes(outcome) ==
    /\ insights.fetch = "notes"
    /\ insights' = [insights EXCEPT
          !.totalNotes = IF outcome = "ok"
                         THEN Cardinality({r \in Visible("notes", user) : r.user_id = user})
                         ELSE 0,
          !.loading = FALSE,
          !.fetch = "done"]
    /\ toast' = ""
    /\ UNCHANGED <<store, nextId, clock>>

(* ------------------------------------------------------------------ *)
\* useState<number | null>(null) of selectedAnswer: null.
NoAnswer == -1
\* useState<Question[] | null>(null) of currentQuiz: null.  A generated quiz has
\* at least one question, so the empty list stands for null.
NoQuiz == <<>>

\* A question, by the one field the page computes with.
Questions == [correct_answer : 0 .. (NumOptions - 1)]
\* What the topic field can hold: empty, blank, a topic.
TopicInputs == {<<>>, <<" ">>, <<"P">>}

\* The generate-quiz function's answers: an error, or { questions: [...] } with
\* one to MaxQuestions questions.  The quiz of n questions has the correct
\* answers 1, 0, 1, ... (mod NumOptions): the page's answers vary, not the key.
QuizOfLen(n) == [i \in 1 .. n |-> [correct_answer |-> i % NumOptions]]
GenerateQuizResponses ==
    {[ok |-> FALSE, questions |-> <<>>]}
    \cup {[ok |-> TRUE, questions |-> QuizOfLen(n)] : n \in 1 .. MaxQuestions}

\* The page after its first render and its mount effect (fetchQuizzes is under way).
QuizInit ==
    [quizzes |-> <<>>, loading |-> TRUE, generating |-> FALSE, topic |-> <<>>,
     currentQuiz |-> NoQuiz, currentQuestion |-> 0, selectedAnswer |-> NoAnswer,
     score |-> 0, showResult |-> FALSE,
     \* awaited: the generate-quiz call, the quizzes inserts, the list reads
     genSent |-> FALSE, saves |-> <<>>, fetches |-> <<[st |-> "sent", data |-> <<>>]>>,
     \* history: how many questions of the current quiz were answered, and how
     \* many of the answers given equalled the question's correct_answer
     nAnswered |-> 0, nCorrect |-> 0]

\* Rows this behaviour can still create, counting the inserts under way.
RoomForRow == nextId + Len(quiz.saves) <= MaxRows

\* onChange of the topic field (disabled while generating; shown with the form).
SetTopic(v) ==
    /\ quiz.currentQuiz = NoQuiz /\ ~quiz.generating
    /\ v # quiz.topic
    /\ quiz' = [quiz EXCEPT !.topic = v]
    /\ toast' = ""
    /\ UNCHANGED <<store, nextId, clock>>

\* generateQuiz up to its await.
GenerateQuiz ==
    /\ quiz.currentQuiz = NoQuiz /\ ~quiz.generating
    /\ IF Trim(quiz.topic) = <<>>
       THEN /\ toast' = "Please enter a topic"
            /\ UNCHANGED quiz
       ELSE /\ RoomForRow
            /\ quiz' = [quiz EXCEPT !.generating = TRUE, !.genSent = TRUE]
            /\ toast' = ""
    /\ UNCHANGED <<store, nextId, clock>>

\* generateQuiz from the answer of generate-quiz on.
GenerateQuizReturn(resp) ==
    /\ quiz.genSent
    /\ IF resp.ok
       THEN /\ quiz' = [quiz EXCEPT !.currentQuiz = resp.questions,
                                    !.currentQuestion = 0, !.score = 0,
                                    !.showResult = FALSE, !.generating = FALSE,
                                    !.genSent = FALSE, !.nAnswered = 0, !.nCorrect = 0]
            /\ toast' = "Quiz generated!"
       ELSE /\ quiz' = [quiz EXCEPT !.generating = FALSE, !.genSent = FALSE]
            /\ toast' = "Failed to generate quiz"
    /\ UNCHANGED <<store, nextId, clock>>

\* handleAnswerSelect: the radio group of the question shown.
HandleAnswerSelect(a) ==
    /\ quiz.currentQuiz # NoQuiz /\ ~quiz.showResult
    /\ a # quiz.selectedAnswer
    /\ quiz' = [quiz EXCEPT !.selectedAnswer = a]
    /\ toast' = ""
    /\ UNCHANGED <<store, nextId, clock>>

\* The payload saveQuizResult inserts.
MutQuizPayload(finalScore) ==
    [user_id |-> user, title |-> quiz.topic, questions |-> quiz.currentQuiz,
     score |-> quiz.score, total_questions |-> Len(quiz.currentQuiz),
     completed |-> TRUE]
QuizPayload(finalScore) ==
    [user_id |-> user, title |-> quiz.topic, questions |-> quiz.currentQuiz,
     score |-> finalScore, total_questions |-> Len(quiz.currentQuiz),
     completed |-> TRUE]

\* handleNextQuestion, with saveQuizResult up to its await.
MutHandleNextQuestion ==
    /\ quiz.currentQuiz # NoQuiz /\ ~quiz.showResult
    /\ IF quiz.selectedAnswer = NoAnswer
       THEN /\ toast' = "Please select an answer"
            /\ UNCHANGED quiz
       ELSE LET isCorrect == quiz.selectedAnswer
                               = quiz.currentQuiz[quiz.currentQuestion + 1].correct_answer
                newScore == IF isCorrect THEN quiz.score + 1 ELSE quiz.score
            IN  /\ toast' = ""
                /\ IF quiz.currentQuestion < Len(quiz.currentQuiz) - 1
                   THEN quiz' = [quiz EXCEPT
                                   !.score = newScore + 1,
                                   !.currentQuestion = @ + 1,
                                   !.selectedAnswer = NoAnswer,
                                   !.nAnswered = @ + 1,
                                   !.nCorrect = IF isCorrect THEN @ + 1 ELSE @]
                   ELSE quiz' = [quiz EXCEPT
                                   !.score = newScore,
                                   !.showResult = TRUE,
                                   !.nAnswered = @ + 1,
                                   !.nCorrect = IF isCorrect THEN @ + 1 ELSE @,
                                   !.saves = IF user = "" THEN @
                                             ELSE Append(@, QuizPayload(newScore))]
    /\ UNCHANGED <<store, nextId, clock>>

HandleNextQuestion ==
    /\ quiz.currentQuiz # NoQuiz /\ ~quiz.showResult
    /\ IF quiz.selectedAnswer = NoAnswer
       THEN /\ toast' = "Please select an answer"
            /\ UNCHANGED quiz
       ELSE LET isCorrect == quiz.selectedAnswer
                               = quiz.currentQuiz[quiz.currentQuestion + 1].correct_answer
                newScore == IF isCorrect THEN quiz.score + 1 ELSE quiz.score
            IN  /\ toast' = ""
                /\ IF quiz.currentQuestion < Len(quiz.currentQuiz) - 1
                   THEN quiz' = [quiz EXCEPT
                                   !.score = IF isCorrect THEN newScore ELSE @,
                                   !.currentQuestion = @ + 1,
                                   !.selectedAnswer = NoAnswer,
                                   !.nAnswered = @ + 1,
                                   !.nCorrect = IF isCorrect THEN @ + 1 ELSE @]
                   ELSE quiz' = [quiz EXCEPT
                                   !.score = newScore,
                                   !.showResult = TRUE,
                                   !.nAnswered = @ + 1,
                                   !.nCorrect = IF isCorrect THEN @ + 1 ELSE @,
                                   !.saves = IF user = "" THEN @
                                             ELSE Append(@, QuizPayload(newScore))]
    /\ UNCHANGED <<store, nextId, clock>>

\* saveQuizResult from the answer of the insert on: the store has run the insert
\* or not; an error is only logged; fetchQuizzes starts.
SaveQuizResultReturn(i, outcome) ==
    /\ i \in 1 .. Len(quiz.saves)
    /\ Len(quiz.fetches) < MaxFetch
    /\ LET payload == quiz.saves[i]
           done == outcome = "ok" /\ InsertAllowed("quizzes", user, payload)
       IN  /\ IF done
              THEN /\ store' = [store EXCEPT !["quizzes"] = InsertRow("quizzes", user, payload)]
                   /\ nextId' = nextId + 1
                   /\ clock' = clock + 1
              ELSE UNCHANGED <<store, nextId, clock>>
           /\ quiz' = [quiz EXCEPT !.saves = RemoveAt(@, i),
                                   !.loading = TRUE,
                                   !.fetches = Append(@, [st |-> "sent", data |-> <<>>])]
    /\ toast' = ""

\* fetchQuizzes: the store runs the select (or the request fails).
FetchQuizzesRead(i, outcome) ==
    /\ i \in 1 .. Len(quiz.fetches)
    /\ quiz.fetches[i].st = "sent"
    /\ quiz' = [quiz EXCEPT !.fetches[i] =
                  IF outcome = "ok"
                  THEN [st |-> "data", data |-> ListDesc("quizzes", user)]
                  ELSE [st |-> "error", data |-> <<>>]]
    /\ toast' = ""
    /\ UNCHANGED <<store, nextId, clock>>

\* fetchQuizzes from the answer of the select on.
FetchQuizzesReturn(i) ==
    /\ i \in 1 .. Len(quiz.fetches)
    /\ quiz.fetches[i].st # "sent"
    /\ IF quiz.fetches[i].st = "error"
       THEN /\ toast' = "Failed to load quizzes"
            /\ quiz' = [quiz EXCEPT !.loading = FALSE, !.fetches = RemoveAt(@, i)]
       ELSE /\ toast' = ""
            /\ quiz' = [quiz EXCEPT !.quizzes = quiz.fetches[i].data,
                                    !.loading = FALSE, !.fetches = RemoveAt(@, i)]
    /\ UNCHANGED <<store, nextId, clock>>

\* resetQuiz: "New Quiz" and "Take Another Quiz".
MutResetQuiz ==
    /\ quiz.currentQuiz # NoQuiz
    /\ quiz' = [quiz EXCEPT !.currentQuiz = NoQuiz, !.topic = <<>>,
                            !.currentQuestion = 0, !.selectedAnswer = NoAnswer,
                            !.score = 0, !.showResult = FALSE,
                            !.nAnswered = 0, !.nCorrect = 0,
                            !.saves = IF quiz.showResult \/ ~RoomForRow THEN @
                                      ELSE Append(@, QuizPayload(quiz.score))]
    /\ toast' = ""
    /\ UNCHANGED <<store, nextId, clock>>

ResetQuiz ==
    /\ quiz.currentQuiz # NoQuiz
    /\ quiz' = [quiz EXCEPT !.currentQuiz = NoQuiz, !.topic = <<>>,
                            !.currentQuestion = 0, !.selectedAnswer = NoAnswer,
                            !.score = 0, !.showResult = FALSE,
                            !.nAnswered = 0, !.nCorrect = 0]
    /\ toast' = ""
    /\ UNCHANGED <<store, nextId, clock>>

(* ================================================================== *)
(* Specifications                                                      *)
(* ================================================================== *)
\* The Quizzes page of one user, with the store.
\* Every page as it is when mounted, the gateway and the function idle.
InitPages ==
    /\ quiz = QuizInit
    /\ notes = NotesInit
    /\ papers = PapersInit
    /\ planner = PlannerInit
    /\ chat = ChatInit
    /\ insights = InsightsInit
    /\ chat2 = ChatInit
    /\ fn = FnInit
    /\ toast = ""
    /\ acts = 0
InitStore ==
    /\ store = EmptyStore
    /\ nextId = 1
    /\ clock = 1

\* The steps of each page: what the user does, and what comes back.
QuizStep ==
    \/ \E v \in TopicInputs : SetTopic(v)
    \/ GenerateQuiz
    \/ \E resp \in GenerateQuizResponses : GenerateQuizReturn(resp)
    \/ \E a \in 0 .. (NumOptions - 1) : HandleAnswerSelect(a)
    \/ HandleNextQuestion
    \/ \E i \in 1 .. MaxRows, o \in Outcomes : SaveQuizResultReturn(i, o)
    \/ \E i \in 1 .. MaxFetch, o \in Outcomes : FetchQuizzesRead(i, o)
    \/ \E i \in 1 .. MaxFetch : FetchQuizzesReturn(i)
    \/ ResetQuiz

NotesStep ==
    \/ /\ acts < MaxActs
       /\ acts' = acts + 1
       /\ \/ \E v \in TitleInputs : SetNoteTitle(v)
          \/ \E v \in TextInputs : SetNoteText(v)
          \/ \E file \in Files : HandleFileChange(file)
          \/ HandleSubmit
          \/ \E id \in 1 .. MaxRows : HandleDelete(id)
    \/ /\ UNCHANGED acts
       /\ \/ \E k \in 1 .. MaxExtracts : HandleFileChangeReturn(k)
          \/ \E i \in Invocations, response \in NotesUpstream : NotesUpstreamAnswer(i, response)
          \/ \E k \in 1 .. MaxRows : HandleSubmitInvoked(k)
          \/ \E k \in 1 .. MaxRows, o \in Outcomes : HandleSubmitInserted(k, o)
          \/ \E k \in 1 .. MaxFetch, o \in Outcomes : HandleDeleteReturn(k, o)
          \/ \E k \in 1 .. MaxFetch, o \in Outcomes : FetchNotesRead(k, o)
          \/ \E k \in 1 .. MaxFetch : FetchNotesReturn(k)

PapersStep ==
    \/ /\ acts < MaxActs
       /\ acts' = acts + 1
       /\ \/ \E v \in TitleInputs : SetPaperTitle(v)
          \/ \E v \in TextInputs : SetPaperText(v)
          \/ PapersHandleSubmit
    \/ /\ UNCHANGED acts
       /\ \/ \E k \in 1 .. MaxRows, got \in AnalyzeResults : PapersAnalyzed(k, got)
          \/ \E k \in 1 .. MaxRows, o \in Outcomes : PapersInserted(k, o)
          \/ \E k \in 1 .. MaxFetch, o \in Outcomes : FetchPapersRead(k, o)
          \/ \E k \in 1 .. MaxFetch : FetchPapersReturn(k)

PlannerStep ==
    \/ /\ acts < MaxActs
       /\ acts' = acts + 1
       /\ \/ \E v \in TaskTitleInputs : SetTaskField("taskTitle", v)
          \/ \E v \in TopicAndDescriptionInputs : SetTaskField("taskDescription", v)
          \/ \E v \in DateInputs : SetTaskField("taskDate", v)
          \/ \E v \in TopicAndDescriptionInputs : SetTaskField("plannerTopic", v)
          \/ \E v \in DateInputs : SetTaskField("examDate", v)
          \/ HandleAddTask
          \/ GenerateStudyPlan
    \/ /\ UNCHANGED acts
       /\ \/ \E k \in 1 .. MaxRows, o \in Outcomes : HandleAddTaskReturn(k, o)
          \/ \E got \in PlanResults : GenerateStudyPlanInvoked(1, got)
          \/ \E o \in Outcomes : GenerateStudyPlanInserted(1, o)
          \/ \E k \in 1 .. MaxFetch, o \in Outcomes : FetchTasksRead(k, o)
          \/ \E k \in 1 .. MaxFetch : FetchTasksReturn(k)

ChatStep ==
    \/ /\ acts < MaxActs
       /\ acts' = acts + 1
       /\ \/ \E v \in ChatInputs : SetInput(v)
          \/ HandleSend
    \/ /\ UNCHANGED acts
       /\ \/ \E o \in Outcomes : LoadSessionRead(o)
          \/ \E o \in Outcomes : LoadSessionInserted(o)
          \/ \E got \in ChatResults : HandleSendInvoked(1, got)
          \/ \E o \in Outcomes : HandleSendUpdated(1, o)

\* The Quizzes page of one user, with the store.
InitQuiz ==
    /\ InitStore /\ InitPages
    /\ env = [LOVABLE_API_KEY |-> <<"k">>]
    /\ gw = GwInit
    /\ route = "quizzes"

NextQuiz ==
    /\ UNCHANGED <<env, fn, notes, acts, gw, papers, planner, chat, route, insights, chat2>>
    /\ QuizStep

SpecQuiz == InitQuiz /\ [][NextQuiz]_vars

\* The process-note function, serving requests.
InitEdge ==
    /\ InitStore /\ InitPages
    /\ env \in {[LOVABLE_API_KEY |-> <<>>], [LOVABLE_API_KEY |-> <<"k">>]}
    /\ gw = GwInit
    /\ route = "notes"

NextEdge ==
    /\ UNCHANGED <<store, nextId, clock, toast, quiz, env, notes, acts, gw,
                   papers, planner, chat, route, insights, chat2>>
    /\ \/ \E i \in Invocations, req \in EdgeRequests : EdgeServe(i, req)
       \/ \E i \in Invocations, response \in UpstreamResponses : EdgeFetchReturn(i, response)

SpecEdge == InitEdge /\ [][NextEdge]_vars

\* The Notes page of one user, with process-note and the store.
InitNotes ==
    /\ InitStore /\ InitPages
    /\ env \in {[LOVABLE_API_KEY |-> <<>>], [LOVABLE_API_KEY |-> <<"k">>]}
    /\ gw = GwInit
    /\ route = "notes"

NextNotes ==
    /\ UNCHANGED <<quiz, env, gw, papers, planner, chat, route, insights, chat2>>
    /\ NotesStep

SpecNotes == InitNotes /\ [][NextNotes]_vars

\* The store behind the gateway, used by two identities.  Another user's row
\* is already there.
InitGateway ==
    /\ \E t \in Tables :
         /\ store = [EmptyStore EXCEPT ![t] = {NewRow(t, GwPayload(t, "u2"), 0, 0)}]
         /\ gw = [GwInit EXCEPT !.t = t]
    /\ nextId = 1
    /\ clock = 1
    /\ InitPages
    /\ env = [LOVABLE_API_KEY |-> <<"k">>]
    /\ route = "notes"

NextGateway ==
    /\ UNCHANGED <<toast, quiz, env, fn, notes, papers, planner, chat, route, insights, chat2>>
    /\ acts < MaxActs
    /\ acts' = acts + 1
    /\ \/ \E uid \in Users, t \in Tables, owner \in Users : GwInsert(uid, t, owner)
       \/ \E uid \in Users, t \in Tables, owner \in Users : GwSelect(uid, t, owner)
       \/ \E uid \in Users, t \in Tables, id \in 0 .. MaxRows :
             \E fields \in GwUpdates(t) : GwUpdate(uid, t, id, fields)
       \/ \E uid \in Users, t \in Tables, id \in 0 .. MaxRows, o \in Outcomes :
             GwDelete(uid, t, id, o)

SpecGateway == InitGateway /\ [][NextGateway]_vars

\* The application of one user: the router has one page mounted.  On the Chat
\* route the user may have a session from an earlier visit.
Routes == {"notes", "quizzes", "past-papers", "planner", "chat"}
EarlierSession ==
    [id |-> 0, user_id |-> user, title |-> <<"N">>,
     messages |-> <<[role |-> "user", content |-> <<"h">>]>>,
     created_at |-> 0, updated_at |-> 0]
InitApp ==
    /\ route \in Routes
    /\ \/ InitStore
       \/ /\ route = "chat"
          /\ store = [EmptyStore EXCEPT !["chat_sessions"] = {EarlierSession}]
          /\ nextId = 1
          /\ clock = 1
    /\ InitPages
    /\ env = [LOVABLE_API_KEY |-> <<"k">>]
    /\ gw = GwInit

NextApp ==
    /\ UNCHANGED <<env, gw, route, insights, chat2>>
    /\ \/ /\ route = "notes"
          /\ UNCHANGED <<quiz, papers, planner, chat>>
          /\ NotesStep
       \/ /\ route = "quizzes"
          /\ UNCHANGED <<fn, notes, acts, papers, planner, chat>>
          /\ QuizStep
       \/ /\ route = "past-papers"
          /\ UNCHANGED <<fn, quiz, notes, planner, chat>>
          /\ PapersStep
       \/ /\ route = "planner"
          /\ UNCHANGED <<fn, quiz, notes, papers, chat>>
          /\ PlannerStep
       \/ /\ route = "chat"
          /\ UNCHANGED <<fn, quiz, notes, papers, planner>>
          /\ ChatStep

SpecApp == InitApp /\ [][NextApp]_vars

\* A page opened on rows saved during earlier visits, some of them by another
\* user: its list read, and the buttons of the listed rows that update them
\* (regenerate of a note, the checkbox of a task).
With(r, x) == [c \in DOMAIN r \cup DOMAIN x |-> IF c \in DOMAIN x THEN x[c] ELSE r[c]]
EarlierNotes ==
    LET base == [id |-> 1, user_id |-> user, title |-> <<"T">>,
                 original_text |-> <<"d">>, created_at |-> 1, updated_at |-> 1]
        ai == [summary |-> <<"o">>, keywords |-> <<"k0">>, mindmap |-> [nodes |-> <<"m">>]]
        file == [file_name |-> <<"a", ".", "p", "d", "f">>]
    IN  {With(With(base, a), f) : a \in {<<>>, ai}, f \in {<<>>, file}}
\* A note with an empty title, as another client of the store can save it.
LaterNote ==
    [id |-> 2, user_id |-> user, title |-> <<>>, original_text |-> <<"d">>,
     summary |-> <<"l">>, created_at |-> 2, updated_at |-> 2]
EarlierTasks ==
    {[id |-> 1, user_id |-> user, title |-> <<"A">>, date |-> 2, completed |-> FALSE,
      created_at |-> 1],
     [id |-> 2, user_id |-> user, title |-> <<"B">>, description |-> <<"b">>, date |-> 1,
      completed |-> TRUE, created_at |-> 2]}
EarlierQuizzes ==
    {[id |-> 1, user_id |-> user, title |-> <<"P">>, questions |-> QuizOfLen(2),
      score |-> 1, total_questions |-> 2, completed |-> TRUE, created_at |-> 1],
     [id |-> 2, user_id |-> user, title |-> <<"P">>, questions |-> QuizOfLen(1),
      score |-> 0, total_questions |-> 1, completed |-> TRUE, created_at |-> 2],
     [id |-> 3, user_id |-> user, title |-> <<"P">>, questions |-> QuizOfLen(1),
      completed |-> FALSE, created_at |-> 3]}
EarlierPapers ==
    {[id |-> 1, user_id |-> user, title |-> <<"T">>, analysis |-> <<"a">>, created_at |-> 1],
     [id |-> 2, user_id |-> user, title |-> <<"U">>, created_at |-> 2]}
\* A row of the other user, newer than the rows above; what it holds beyond its
\* owner plays no part.
StrangersRow ==
    [id |-> 4, user_id |-> "u2", title |-> <<"S">>, date |-> 0, completed |-> TRUE,
     score |-> 1, total_questions |-> 1, created_at |-> 4]
RevisitRoutes == {"notes", "planner", "quizzes", "past-papers", "insights"}
RevisitTable(r) ==
    CASE r = "notes" -> "notes"
      [] r = "planner" -> "study_tasks"
      [] r = "past-papers" -> "past_papers"
      [] OTHER -> "quizzes"
RevisitRows(r) ==
    CASE r = "notes" ->
           {{n} \cup more : n \in EarlierNotes, more \in {{}, {LaterNote, StrangersRow}}}
      [] r = "planner" -> SUBSET (EarlierTasks \cup {StrangersRow})
      [] r = "past-papers" -> SUBSET (EarlierPapers \cup {StrangersRow})
      [] OTHER -> SUBSET (EarlierQuizzes \cup {StrangersRow})

RegenerateStep ==
    \/ /\ acts < MaxActs
       /\ acts' = acts + 1
       /\ \E n \in {1, 2} : HandleRegenerate(n)
    \/ /\ UNCHANGED acts
       /\ \/ \E i \in Invocations, response \in NotesUpstream : NotesUpstreamAnswer(i, response)
          \/ \E k \in 1 .. MaxRows : HandleRegenerateInvoked(k)
          \/ \E k \in 1 .. MaxRows, o \in Outcomes : HandleRegenerateUpdated(k, o)
          \/ \E k \in 1 .. MaxFetch, o \in Outcomes : FetchNotesRead(k, o)
          \/ \E k \in 1 .. MaxFetch : FetchNotesReturn(k)

TasksStep ==
    \/ /\ acts < MaxActs
       /\ acts' = acts + 1
       /\ \E n \in {1, 2} : HandleToggleComplete(n)
    \/ /\ UNCHANGED acts
       /\ \/ \E k \in 1 .. MaxToggles, o \in Outcomes : HandleToggleCompleteReturn(k, o)
          \/ \E k \in 1 .. MaxToggles, o \in Outcomes : FetchTasksRead(k, o)
          \/ \E k \in 1 .. MaxToggles : FetchTasksReturn(k)

InitRevisit ==
    /\ route \in RevisitRoutes
    /\ \E rows \in RevisitRows(route) : store = [EmptyStore EXCEPT ![RevisitTable(route)] = rows]
    /\ nextId = 5
    /\ clock = 5
    /\ InitPages
    /\ env = [LOVABLE_API_KEY |-> <<"k">>]
    /\ gw = GwInit

NextRevisit ==
    /\ UNCHANGED <<env, gw, route, chat, chat2>>
    /\ \/ /\ route = "notes"
          /\ UNCHANGED <<quiz, papers, planner, insights>>
          /\ RegenerateStep
       \/ /\ route = "planner"
          /\ UNCHANGED <<fn, quiz, notes, papers, insights>>
          /\ TasksStep
       \/ /\ route = "quizzes"
          /\ UNCHANGED <<fn, notes, acts, papers, planner, insights>>
          /\ \/ \E k \in 1 .. MaxFetch, o \in Outcomes : FetchQuizzesRead(k, o)
             \/ \E k \in 1 .. MaxFetch : FetchQuizzesReturn(k)
       \/ /\ route = "past-papers"
          /\ UNCHANGED <<fn, quiz, notes, acts, planner, insights>>
          /\ \/ \E k \in 1 .. MaxFetch, o \in Outcomes : FetchPapersRead(k, o)
             \/ \E k \in 1 .. MaxFetch : FetchPapersReturn(k)
       \/ /\ route = "insights"
          /\ UNCHANGED <<fn, quiz, notes, acts, papers, planner>>
          /\ \/ \E o \in Outcomes : FetchInsightsQuizzes(o)
             \/ \E o \in Outcomes : FetchInsightsNotes(o)

SpecRevisit == InitRevisit /\ [][NextRevisit]_vars

\* Two Chat pages of the same user, each in its own tab, on the session of an
\* earlier visit: each page has its own state, the store is shared.  The user
\* types "h" in the first tab and "j" in the second.
TabStep(pg, pgn, text) ==
    \/ /\ acts < MaxActs
       /\ acts' = acts + 1
       /\ \/ SetInputOn(pg, pgn, text)
          \/ HandleSendOn(pg, pgn)
    \/ /\ UNCHANGED acts
       /\ \/ \E o \in Outcomes : LoadSessionReadOn(pg, pgn, o)
          \/ \E o \in Outcomes : LoadSessionInsertedOn(pg, pgn, o)
          \/ \E got \in ChatResults : HandleSendInvokedOn(pg, pgn, 1, got)
          \/ \E o \in Outcomes : HandleSendUpdatedOn(pg, pgn, 1, o)

InitTabs ==
    /\ store = [EmptyStore EXCEPT !["chat_sessions"] = {EarlierSession}]
    /\ nextId = 1
    /\ clock = 1
    /\ InitPages
    /\ env = [LOVABLE_API_KEY |-> <<"k">>]
    /\ gw = GwInit
    /\ route = "chat"

NextTabs ==
    /\ UNCHANGED <<env, fn, gw, quiz, notes, papers, planner, insights, route>>
    /\ \/ TabStep(chat, chat', <<"h">>) /\ UNCHANGED chat2
       \/ TabStep(chat2, chat2', <<"j">>) /\ UNCHANGED chat

SpecTabs == InitTabs /\ [][NextTabs]_vars

\* The Notes page right after it is opened, its list read still under way: the
\* user picks one document, and the extraction of its text runs to its end.
ExtractStep ==
    \/ /\ acts = 0
       /\ acts' = 1
       /\ \E file \in Documents : HandleFileChange(file)
    \/ /\ UNCHANGED acts
       /\ \E k \in 1 .. MaxExtracts : HandleFileChangeReturn(k)

InitExtract ==
    /\ InitStore /\ InitPages
    /\ env = [LOVABLE_API_KEY |-> <<"k">>]
    /\ gw = GwInit
    /\ route = "notes"

NextExtract ==
    /\ UNCHANGED <<quiz, env, gw, papers, planner, chat, route, insights, chat2>>
    /\ ExtractStep

SpecExtract == InitExtract /\ [][NextExtract]_vars

\* The Planner page of a user with no task yet, the store taking its ids from 0
\* on, so that a generated plan of two tasks has room within MaxRows.
InitPlan ==
    /\ store = EmptyStore /\ nextId = 0 /\ clock = 1
    /\ InitPages
    /\ env = [LOVABLE_API_KEY |-> <<"k">>]
    /\ gw = GwInit
    /\ route = "planner"

NextPlan ==
    /\ UNCHANGED <<fn, quiz, notes, env, gw, papers, chat, route, insights, chat2>>
    /\ PlannerStep

SpecPlan == InitPlan /\ [][NextPlan]_vars

\* The Notes page opened on one note saved during an earlier visit, the form
\* typed in while the list is being read: the submit button, the regenerate
\* and delete buttons of the listed notes, and the requests that reach
\* process-note from elsewhere (a preflight, a body that is not JSON).
ListedStep ==
    /\ acts < MaxPresses
    /\ acts' = acts + 1
    /\ \/ HandleSubmit
       \/ \E n \in 1 .. 2 : HandleRegenerate(n)
       \/ \E id \in 0 .. MaxRows : HandleDelete(id)
       \/ \E i \in Invocations, req \in EdgeRequests \ NotePosts :
             /\ fn[i].pc = "idle"
             /\ \A j \in 1 .. i - 1 : fn[j].pc # "idle"
             /\ EdgeServe(i, req)
             /\ toast' = ""
             /\ UNCHANGED <<store, nextId, clock, notes>>

\* What the page awaits arrives: the answers of process-note and of the store.
ListedReturn ==
    /\ UNCHANGED acts
    /\ \/ \E i \in Invocations :
             \E response \in {r \in UpstreamResponses :
                                \/ r \in NotesUpstream
                                \/ r.rejected \/ r.status # 200
                                \/ r.body.shape # "tool"
                                \/ r.body.arguments.json # "object"} :
                 NotesUpstreamAnswer(i, response)
       \/ \E k \in 1 .. MaxRows : HandleSubmitInvoked(k)
       \/ \E k \in 1 .. MaxRows, o \in Outcomes : HandleSubmitInserted(k, o)
       \/ \E k \in 1 .. MaxRows : HandleRegenerateInvoked(k)
       \/ \E k \in 1 .. MaxRows, o \in Outcomes : HandleRegenerateUpdated(k, o)
       \/ \E k \in 1 .. MaxFetch, o \in Outcomes : HandleDeleteReturn(k, o)
       \/ \E k \in 1 .. MaxFetch, o \in Outcomes : FetchNotesRead(k, o)
       \/ \E k \in 1 .. MaxFetch : FetchNotesReturn(k)

InitListed ==
    /\ store = [EmptyStore EXCEPT !["notes"] =
                  {[id |-> 0, user_id |-> user, title |-> <<"T">>, original_text |-> <<"d">>,
                    summary |-> <<"o">>, created_at |-> 0, updated_at |-> 0]}]
    /\ nextId = 1 /\ clock = 1
    /\ quiz = QuizInit /\ papers = PapersInit /\ planner = PlannerInit
    /\ chat = ChatInit /\ chat2 = ChatInit /\ insights = InsightsInit
    /\ notes = [NotesInit EXCEPT !.noteTitle = <<"T">>, !.noteText = <<"d">>]
    /\ fn = FnInit /\ toast = "" /\ acts = 0
    /\ env \in {[LOVABLE_API_KEY |-> <<>>], [LOVABLE_API_KEY |-> <<"k">>]}
    /\ gw = GwInit
    /\ route = "notes"

NextListed ==
    /\ UNCHANGED <<quiz, env, gw, papers, planner, chat, route, insights, chat2>>
    /\ (ListedStep \/ ListedReturn)

SpecListed == InitListed /\ [][NextListed]_vars

\* Every request the page has sent is answered in the end, and the handler
\* that awaits the answer then runs on.
SpecListedFair ==
    /\ SpecListed
    /\ WF_vars(/\ UNCHANGED <<quiz, env, gw, papers, planner, chat, route, insights, chat2>>
               /\ ListedReturn)

(* ================================================================== *)
(* Claims                                                              *)
(* ================================================================== *)

\* C1: answering every question of a quiz of N >= 1 questions, k of the answers
\* being the question's correct_answer, makes saveQuizResult insert a row with
\* score = k, total_questions = N and completed = true.  Step by step: the step
\* that answers the last question sends one insert whose payload carries k, N
\* and true; the step in which the store creates a quizzes row creates it from
\* one of the payloads under way, with the same three values.
C1_SaveCarriesScore ==
    (~quiz.showResult /\ quiz'.showResult) =>
        /\ quiz'.nAnswered = Len(quiz.currentQuiz)
        /\ Len(quiz'.saves) = Len(quiz.saves) + 1
        /\ LET p == quiz'.saves[Len(quiz'.saves)]
           IN  /\ p.score = quiz'.nCorrect
               /\ p.total_questions = Len(quiz.currentQuiz)
               /\ p.completed = TRUE
               /\ p.user_id = user
C1_RowIsPayload ==
    (store'["quizzes"] # store["quizzes"]) =>
        \E i \in 1 .. Len(quiz.saves) :
            \E r \in store'["quizzes"] :
                /\ r \notin store["quizzes"]
                /\ store'["quizzes"] = store["quizzes"] \cup {r}
                /\ r.score = quiz.saves[i].score
                /\ r.total_questions = quiz.saves[i].total_questions
                /\ r.completed = TRUE
                /\ quiz'.saves = RemoveAt(quiz.saves, i)
C1_QuizResultSaved == [][C1_SaveCarriesScore /\ C1_RowIsPayload]_vars

\* A quiz of MaxQuestions questions was completed with some but not all answers
\* correct, and its row is stored.
C1_Witness ==
    \E r \in store["quizzes"] :
        /\ r.total_questions = MaxQuestions
        /\ r.score > 0 /\ r.score < r.total_questions
        /\ r.completed

\* The invocations that have ended after an answer of the completion service.
Answered(i) == fn[i].pc = "done" /\ "response" \in DOMAIN fn[i]
\* The invocation got a 2xx answer whose message holds a tool call with the JSON
\* text of an object as arguments.
StructuredAnswer(i) ==
    /\ Answered(i)
    /\ ~fn[i].response.rejected
    /\ ResponseOk(fn[i].response)
    /\ fn[i].response.body.shape = "tool"
    /\ fn[i].response.body.arguments.json = "object"

\* C2: when the file given to the upload control has a media type other than
\* PDF or DOCX, handleFileChange shows an error message, starts no text
\* extraction, makes no call to process-note or the store, and leaves
\* selectedFile, noteTitle and noteText as they were.
C2_Rejects ==
    \A file \in Files :
        (HandleFileChange(file) /\ file.type \notin {PDF, DOCX}) =>
            /\ toast' = "Please upload a PDF or DOCX file"
            /\ notes'.extracts = notes.extracts
            /\ notes'.extracting = notes.extracting
            /\ notes'.submits = notes.submits /\ notes'.deletes = notes.deletes
            /\ notes'.fetches = notes.fetches
            /\ fn' = fn /\ store' = store
            /\ notes'.selectedFile = notes.selectedFile
            /\ notes'.noteTitle = notes.noteTitle
            /\ notes'.noteText = notes.noteText
C2_UnsupportedFileRejected == [][C2_Rejects]_vars
C2_Witness ==
    /\ toast = "Please upload a PDF or DOCX file"
    /\ notes.selectedFile # <<>> /\ notes.noteTitle # <<>> /\ notes.noteText # <<>>

\* C3: once a delete by an owner has succeeded, no list read by that owner
\* contains the row and no row of that owner with that id is left in the store
\* (removed, not marked); a delete leaves the rows of every other owner, in
\* every table, as they were.
C3_Absent ==
    \A d \in gw.deleted : \A t \in Tables :
        /\ \A n \in 1 .. Len(ListDesc(t, d.uid)) : ListDesc(t, d.uid)[n].id # d.id
        /\ \A r \in store[t] : r.id = d.id => r.user_id # d.uid
C3_OthersKept ==
    \A uid \in Users, t \in Tables, id \in 0 .. MaxRows :
        GwDelete(uid, t, id, "ok") =>
            \A t2 \in Tables :
                {r \in store'[t2] : r.user_id # uid} = {r \in store[t2] : r.user_id # uid}
C3_DeleteRemoves == [][C3_Absent' /\ C3_OthersKept]_vars
\* u1 deleted its own row 1 while the row of u2 is there, and it is still there.
C3_Witness ==
    /\ gw.op = "delete" /\ gw.uid = "u1" /\ ~gw.error
    /\ nextId = 2
    /\ gw.deleted = {[uid |-> "u1", id |-> 1]}
    /\ store[gw.t] = {r \in store[gw.t] : r.id = 0 /\ r.user_id = "u2"}
    /\ store[gw.t] # {}

\* C4: a note listed by fetchNotes (each one was created by handleSubmit after a
\* successful call of process-note) has a non-null title, the one submitted, and
\* a non-null summary and non-null keywords.
C4_NoteRoundTrip ==
    \A n \in 1 .. Len(notes.notes) :
        /\ notes.notes[n].title \in {<<"T">>, <<"a">>}
        /\ ~IsNull(notes.notes[n], "summary")
        /\ ~IsNull(notes.notes[n], "keywords")

\* C5: when the upstream's structured answer lacks summary or keywords, the
\* result carries the placeholder for the missing field only, the fields that
\* were present keep the upstream's values, and the call does not end in an error.
C5_PlaceholderPerField ==
    \A i \in Invocations :
        (StructuredAnswer(i)
            /\ {"summary", "keywords"} \ DOMAIN fn[i].response.body.arguments.value # {}) =>
        LET given == fn[i].response.body.arguments.value
        IN  /\ fn[i].resp.status = 200
            /\ "body" \in DOMAIN fn[i].resp
            /\ \A f \in {"summary", "keywords"} :
                  /\ f \in DOMAIN fn[i].resp.body
                  /\ fn[i].resp.body[f] = IF f \in DOMAIN given THEN given[f]
                                          ELSE DefaultResult[f]
            /\ "mindmap" \in DOMAIN given =>
                  /\ "mindmap" \in DOMAIN fn[i].resp.body
                  /\ fn[i].resp.body.mindmap = given.mindmap

\* C6: when the completion service answers 2xx with free text and no tool call,
\* process-note responds 200 with summary 'Could not generate summary',
\* keywords [] and mindmap null, and handleSubmit goes on to insert the note
\* with these values instead of failing.
C6_IsDefault(rec) ==
    /\ rec.summary = <<"C", "o", "u", "l", "d", " ", "n", "o", "t", " ",
                       "g", "e", "n", "e", "r", "a", "t", "e", " ",
                       "s", "u", "m", "m", "a", "r", "y">>
    /\ rec.keywords = <<>>
    /\ IsNull(rec, "mindmap")
C6_FreeText(i) ==
    /\ fn[i].pc = "done" /\ "response" \in DOMAIN fn[i]
    /\ ~fn[i].response.rejected /\ ResponseOk(fn[i].response)
    /\ fn[i].response.body.shape = "text"
C6_Responds ==
    \A i \in Invocations : C6_FreeText(i)' =>
        fn'[i].resp.status = 200 /\ C6_IsDefault(fn'[i].resp.body)
C6_Continues ==
    \A k \in 1 .. MaxRows :
        (HandleSubmitInvoked(k) /\ C6_FreeText(notes.submits[k].call)) =>
            /\ toast' # "Failed to process note"
            /\ notes'.processing
            /\ notes'.submits[k].stage = "insert"
            /\ C6_IsDefault(notes'.submits[k].payload)
C6_FreeTextFallback == [][C6_Responds /\ C6_Continues]_vars
C6_Witness ==
    \E r \in store["notes"] : ~IsNull(r, "summary") /\ C6_IsDefault(r)

\* C7: an invocation that finds LOVABLE_API_KEY not configured answers with an
\* error and has sent no request to the completion service.
C7_NoKeyNoRequest ==
    \A i \in Invocations :
        (env.LOVABLE_API_KEY = <<>>) =>
            /\ fn[i].sent = 0
            /\ fn[i].pc # "fetch"
            /\ (fn[i].pc = "done" /\ fn[i].req.method = "POST") =>
                  /\ fn[i].resp.status = 500
                  /\ "error" \in DOMAIN fn[i].resp.body
                  /\ fn[i].req.json =>
                        fn[i].resp.body.error = [text |-> "LOVABLE_API_KEY not configured"]

\* A POST with a readable body was answered while the key was not configured.
C7_Witness ==
    \E i \in Invocations :
        /\ env.LOVABLE_API_KEY = <<>>
        /\ fn[i].pc = "done"
        /\ fn[i].req.method = "POST" /\ fn[i].req.json
        /\ fn[i].resp.status = 500

\* C8: an invocation sends at most one request to the completion service; when
\* the answer is not 2xx the invocation ends with an error that carries the
\* upstream's status code, having sent that one request only.
C8_OneRequestNoRetry ==
    \A i \in Invocations :
        /\ fn[i].sent <= 1
        /\ (Answered(i) /\ ~fn[i].response.rejected /\ ~ResponseOk(fn[i].response)) =>
              /\ fn[i].sent = 1
              /\ fn[i].resp.status = 500
              /\ fn[i].resp.body.error
                    = [text |-> "AI API error: ", status |-> fn[i].response.status]

\* An invocation ended after the completion service answered 429.
C8_Witness ==
    \E i \in Invocations :
        /\ Answered(i)
        /\ ~fn[i].response.rejected
        /\ fn[i].response.status = 429
        /\ fn[i].resp.status = 500

\* C9: in each of the six tables, a statement run for an identity returns only
\* rows whose user_id is that identity, changes or removes only such rows, and
\* creates only such rows; this holds for the statements that name a row by its
\* id alone (update and delete by id).
C9_Step ==
    \A t \in Tables :
        /\ \A r \in store[t] \ store'[t] : r.user_id = gw'.uid
        /\ \A r \in store'[t] \ store[t] : r.user_id = gw'.uid
        /\ gw'.op = "select" => \A r \in gw'.rows : r.user_id = gw'.uid
C9_OwnerOnly == [][C9_Step]_vars
\* u1 ran a delete and an update on the id of u2's row; the row is as it was.
C9_Witness ==
    /\ gw.op = "update" /\ gw.uid = "u1" /\ ~gw.error
    /\ [uid |-> "u1", id |-> 0] \in gw.deleted
    /\ store[gw.t] = {NewRow(gw.t, GwPayload(gw.t, "u2"), 0, 0)}

\* C10 (as stated): each of the six entry points, when a required input is
\* missing, shows a message and returns without a call to the Normalizer and
\* without a write to the store.
C10_Quiet == store' = store /\ nextId' = nextId /\ fn' = fn
C10_NotesMissing ==
    route = "notes" /\ (notes.noteTitle = <<>> \/ notes.noteText = <<>>) /\ HandleSubmit
C10_PapersMissing ==
    /\ route = "past-papers" /\ (papers.paperTitle = <<>> \/ papers.paperText = <<>>)
    /\ PapersHandleSubmit
C10_AddTaskMissing ==
    /\ route = "planner" /\ (planner.taskTitle = <<>> \/ planner.taskDate = NoDate)
    /\ HandleAddTask
C10_PlanMissing ==
    /\ route = "planner" /\ (planner.plannerTopic = <<>> \/ planner.examDate = NoDate)
    /\ GenerateStudyPlan
C10_QuizMissing == route = "quizzes" /\ Trim(quiz.topic) = <<>> /\ GenerateQuiz
C10_SendMissing ==
    route = "chat" /\ (Trim(chat.input) = <<>> \/ chat.sessionId = <<>>) /\ HandleSend
C10_FiveShowMessage ==
    /\ C10_NotesMissing =>
          /\ toast' = "Please provide both title and text"
          /\ C10_Quiet /\ notes'.submits = notes.submits
    /\ C10_PapersMissing =>
          /\ toast' = "Please provide both title and content"
          /\ C10_Quiet /\ papers'.submits = papers.submits
    /\ C10_AddTaskMissing =>
          /\ toast' = "Please provide title and date"
          /\ C10_Quiet /\ planner'.adds = planner.adds
    /\ C10_PlanMissing =>
          /\ toast' = "Please provide topic and exam date"
          /\ C10_Quiet /\ planner'.plans = planner.plans
    /\ C10_QuizMissing =>
          /\ toast' = "Please enter a topic"
          /\ C10_Quiet /\ ~quiz'.genSent
C10_AllShowMessage ==
    [][/\ C10_FiveShowMessage
       /\ C10_SendMissing => (toast' # "" /\ C10_Quiet /\ chat'.sends = chat.sends)]_vars

\* C10 (amended): the five entry points other than handleSend show their message
\* and return without a call to the Normalizer and without a write to the
\* store; handleSend returns without a call and without a write too, and shows
\* no message.  No call under way was made with a missing input.
C10_NoCallWithoutInput ==
    /\ \A i \in Invocations :
          (fn[i].pc # "idle" /\ fn[i].req.method = "POST" /\ fn[i].req.json) =>
              fn[i].req.title # <<>> /\ fn[i].req.text # <<>>
    /\ \A k \in 1 .. Len(papers.submits) :
          papers.submits[k].stage = "ai" =>
              papers.submits[k].paperTitle # <<>> /\ papers.submits[k].paperText # <<>>
    /\ \A k \in 1 .. Len(planner.adds) :
          planner.adds[k].title # <<>> /\ planner.adds[k].date # NoDate
    /\ \A k \in 1 .. Len(planner.plans) :
          planner.plans[k].stage = "ai" =>
              planner.plans[k].topic # <<>> /\ planner.plans[k].examDate # NoDate
    /\ quiz.genSent => Trim(quiz.topic) # <<>>
    /\ \A k \in 1 .. Len(chat.sends) :
          chat.sends[k].stage = "ai" =>
              LET m == chat.sends[k].updatedMessages
              IN  Trim(m[Len(m)].content) # <<>>
C10_MissingInputStops ==
    [][/\ C10_FiveShowMessage
       /\ C10_SendMissing => (toast' = "" /\ C10_Quiet /\ chat' = chat)
       /\ C10_NoCallWithoutInput']_vars
\* generateStudyPlan refused a topic without an exam date.
C10_Witness ==
    /\ route = "planner"
    /\ toast = "Please provide topic and exam date"
    /\ planner.plannerTopic # <<>> /\ planner.examDate = NoDate
    /\ planner.plans = <<>> /\ store = EmptyStore

\* ---------------------------------------------------------------------------
\* C11: in the Notes pipeline the stages never overlap: no process-note call
\* starts while a text extraction is still in flight, and the insert of the
\* note starts only after the process-note call has returned.
\* ---------------------------------------------------------------------------

\* A handleSubmit call that reached process-note in this step.
C11_CallStarts ==
    /\ Len(notes'.submits) = Len(notes.submits) + 1
    /\ notes'.submits[Len(notes'.submits)].stage = "ai"

\* A handleSubmit call that went on to the insert in this step.
C11_InsertStarts(k) ==
    /\ k \in 1 .. Len(notes.submits) /\ k \in 1 .. Len(notes'.submits)
    /\ notes.submits[k].stage = "ai" /\ notes'.submits[k].stage = "insert"

C11_StagesNeverOverlap ==
    [][/\ C11_CallStarts => notes.extracts = <<>>
       /\ \A k \in 1 .. MaxInvocations :
            C11_InsertStarts(k) => fn[notes.submits[k].call].pc = "done"]_vars

\* ---------------------------------------------------------------------------
\* C12: when the generating call succeeded and the insert that follows fails
\* (Notes handleSubmit, PastPapers handleSubmit, Planner generateStudyPlan),
\* the generated result is dropped: no row is written, the insert is not
\* issued again, and nothing of the page state holds the generated fields (the
\* page is as it was, but for the busy flag and the call that ended).
\* ---------------------------------------------------------------------------

\* The page record pg2 is pg but for the fields named in except.
C12_SameBut(pg, pg2, except) ==
    /\ DOMAIN pg2 = DOMAIN pg
    /\ \A f \in DOMAIN pg \ except : pg2[f] = pg[f]

C12_NotesInsertFails(k) ==
    \E o \in Outcomes :
        /\ HandleSubmitInserted(k, o)
        /\ ~(o = "ok" /\ InsertAllowed("notes", user, notes.submits[k].payload))

C12_PapersInsertFails(k) ==
    \E o \in Outcomes :
        /\ PapersInserted(k, o)
        /\ ~(o = "ok" /\ InsertAllowed("past_papers", user, papers.submits[k].payload))

C12_PlanInsertFails(k) ==
    \E o \in Outcomes :
        /\ GenerateStudyPlanInserted(k, o)
        /\ ~(o = "ok" /\ \A n \in DOMAIN planner.plans[k].rows :
                            InsertAllowed("study_tasks", user, planner.plans[k].rows[n]))

C12_GeneratedResultDropped ==
    [][\A k \in 1 .. MaxInvocations :
        /\ C12_NotesInsertFails(k) =>
             /\ store' = store /\ nextId' = nextId /\ fn' = fn
             /\ notes'.submits = RemoveAt(notes.submits, k)
             /\ ~notes'.processing
             /\ C12_SameBut(notes, notes', {"submits", "processing"})
        /\ C12_PapersInsertFails(k) =>
             /\ store' = store /\ nextId' = nextId
             /\ papers'.submits = RemoveAt(papers.submits, k)
             /\ ~papers'.processing
             /\ C12_SameBut(papers, papers', {"submits", "processing"})
        /\ C12_PlanInsertFails(k) =>
             /\ store' = store /\ nextId' = nextId
             /\ planner'.plans = RemoveAt(planner.plans, k)
             /\ ~planner'.generating
             /\ C12_SameBut(planner, planner', {"plans", "generating"})]_vars

\* The plan came back with a task that has no title: the insert of its rows is
\* refused, and the page holds the generated rows only in the call under way.
C12_Witness ==
    /\ planner.plans # <<>>
    /\ planner.plans[1].stage = "insert"
    /\ \E n \in DOMAIN planner.plans[1].rows :
          ~InsertAllowed("study_tasks", user, planner.plans[1].rows[n])
    /\ store["study_tasks"] = {}

\* ---------------------------------------------------------------------------
\* C13: every failed user action leaves the state that existed before the
\* action untouched: the stored rows and what the page displays (the Chat
\* message list and input included) are as they were when the action started.
\* ---------------------------------------------------------------------------

\* A list without its last n elements.
C13_Front(seq, n) == SubSeq(seq, 1, Len(seq) - n)

\* handleSend ends in its catch block: chat-tutor failed.
C13_SendFails(k) ==
    \E got \in ChatResults : HandleSendInvoked(k, got) /\ (got.error \/ got.isNull)

\* handleSend's update of the session did not reach the store.
C13_SendNotSaved(k) ==
    /\ \E o \in Outcomes : HandleSendUpdated(k, o)
    /\ store' = store

\* handleRegenerate, handleFileChange end in their catch block.
C13_RegenerateFails(k) ==
    \/ HandleRegenerateInvoked(k) /\ notes.regens[k].stage = "ai" /\ Len(notes'.regens) < Len(notes.regens)
    \/ \E o \in Outcomes :
          /\ HandleRegenerateUpdated(k, o)
          /\ (o = "error" \/ UpdateWhereIdNulls("notes", user, notes.regens[k].id,
                                                notes.regens[k].fields,
                                                notes.regens[k].nulls).error)
C13_ExtractionFails(k) ==
    /\ HandleFileChangeReturn(k)
    /\ (IF notes.extracts[k].type = PDF THEN ExtractTextFromPDF(notes.extracts[k])
        ELSE ExtractTextFromDOCX(notes.extracts[k])).threw

C13_FailureLeavesStateUntouched ==
    [][\A k \in 1 .. MaxInvocations :
        /\ C13_SendFails(k) =>
             LET sent == chat.sends[k].updatedMessages
             IN  /\ store' = store
                 /\ chat'.messages = C13_Front(sent, 1)
                 /\ chat'.input = sent[Len(sent)].content
        /\ C13_SendNotSaved(k) =>
             LET final == chat.sends[k].finalMessages
             IN  /\ chat'.messages = C13_Front(final, 2)
                 /\ chat'.input = final[Len(final) - 1].content
        /\ C13_RegenerateFails(k) =>
             /\ store' = store
             /\ C12_SameBut(notes, notes', {"regens", "processing"})
        /\ C13_ExtractionFails(k) =>
             /\ store' = store
             /\ notes'.notes = notes.notes
             /\ notes'.noteText = notes.noteText]_vars

\* ---------------------------------------------------------------------------
\* C14: every extraction failure and every persistence failure produces a
\* notification for the action that failed, the failed quizzes insert of
\* saveQuizResult and the failed chat_sessions update of handleSend included.
\* ---------------------------------------------------------------------------

\* A write to the store that an action awaited comes back failed in this step.
C14_PersistenceFails(k) ==
    \/ C12_NotesInsertFails(k)
    \/ C12_PapersInsertFails(k)
    \/ C12_PlanInsertFails(k)
    \/ \E o \in Outcomes :
          /\ HandleAddTaskReturn(k, o)
          /\ ~(o = "ok" /\ InsertAllowed("study_tasks", user, planner.adds[k]))
    \/ HandleDeleteReturn(k, "error")
    \/ \E o \in Outcomes :
          /\ SaveQuizResultReturn(k, o)
          /\ ~(o = "ok" /\ InsertAllowed("quizzes", user, quiz.saves[k]))
    \/ HandleSendUpdated(k, "error")

C14_FailureNotified ==
    [][\A k \in 1 .. MaxInvocations :
          C13_ExtractionFails(k) \/ C14_PersistenceFails(k) => toast' # ""]_vars

\* ---------------------------------------------------------------------------
\* C15: an update overwrites only the fields it supplies.  handleRegenerate
\* changes only summary, keywords, questions and mindmap of the note and leaves
\* its title, original_text, file_name, user_id and created_at as they were;
\* handleToggleComplete changes only the completed field of the task.
\* ---------------------------------------------------------------------------

\* Column c is the same in the two rows: NULL in both, or the same value.
C15_Same(r, r2, c) ==
    /\ (c \in DOMAIN r) = (c \in DOMAIN r2)
    /\ c \in DOMAIN r => r[c] = r2[c]

\* Over this step every row of table t is kept, and no column changed but the
\* columns in supplied of the row with this id.
C15_OnlySupplied(t, id, supplied) ==
    /\ Cardinality(store'[t]) = Cardinality(store[t])
    /\ \A r \in store[t] : \E r2 \in store'[t] :
          /\ r2.id = r.id
          /\ \A c \in DOMAIN r \cup DOMAIN r2 :
                (r.id = id /\ c \in supplied) \/ C15_Same(r, r2, c)

\* The row with this id now holds the values the update supplied.
C15_Written(t, id, fields, nulls) ==
    \A r2 \in store'[t] :
        r2.id = id => /\ \A c \in DOMAIN fields : c \in DOMAIN r2 /\ r2[c] = fields[c]
                      /\ \A c \in nulls : IsNull(r2, c)

C15_UpdateOnlySuppliedFields ==
    [][\A k \in 1 .. MaxInvocations :
        /\ (\E o \in Outcomes : HandleRegenerateUpdated(k, o)) =>
             LET c == notes.regens[k]
                 supplied == DOMAIN c.fields \cup c.nulls
             IN  /\ supplied \subseteq {"summary", "keywords", "questions", "mindmap"}
                 /\ C15_OnlySupplied("notes", c.id, supplied)
                 /\ toast' = "Note regenerated!" => C15_Written("notes", c.id, c.fields, c.nulls)
        /\ (\E o \in Outcomes : HandleToggleCompleteReturn(k, o)) =>
             LET c == planner.toggles[k]
             IN  /\ C15_OnlySupplied("study_tasks", c.id, {"completed"})
                 /\ toast' = "" => C15_Written("study_tasks", c.id, c.fields, {})]_vars

\* As the code has it: the update of a note also sets its updated_at, through
\* the trigger of the notes table; nothing else changes beyond the supplied
\* fields.  The update of a task changes its completed field only.
C15_SuppliedFieldsAndStamp ==
    [][\A k \in 1 .. MaxInvocations :
        /\ (\E o \in Outcomes : HandleRegenerateUpdated(k, o)) =>
             LET c == notes.regens[k]
                 supplied == DOMAIN c.fields \cup c.nulls
             IN  /\ supplied \subseteq {"summary", "keywords", "questions", "mindmap"}
                 /\ C15_OnlySupplied("notes", c.id, supplied \cup {"updated_at"})
                 /\ toast' = "Note regenerated!" =>
                       /\ C15_Written("notes", c.id, c.fields, c.nulls)
                       /\ C15_Written("notes", c.id, [updated_at |-> clock], {})
        /\ (\E o \in Outcomes : HandleToggleCompleteReturn(k, o)) =>
             LET c == planner.toggles[k]
             IN  /\ C15_OnlySupplied("study_tasks", c.id, {"completed"})
                 /\ toast' = "" => C15_Written("study_tasks", c.id, c.fields, {})]_vars

\* A note saved from a file was regenerated: its summary is the new one, its
\* title and file name are the old ones, its updated_at is the time of the update.
C15_Witness ==
    /\ toast = "Note regenerated!"
    /\ \E r \in store["notes"] :
          /\ r.id = 1 /\ r.title = <<"T">>
          /\ "file_name" \in DOMAIN r
          /\ "summary" \in DOMAIN r /\ r.summary = UpstreamFields.summary
          /\ r.created_at = 1 /\ r.updated_at = clock

\* ---------------------------------------------------------------------------
\* C16: when two pages of the same user update the same row concurrently (two
\* Chat pages sending on the same session), both updates are accepted, and the
\* stored value of each supplied field is the one written by the update that
\* executed last: no update is rejected because the row changed since the page
\* read it.
\* ---------------------------------------------------------------------------

\* The update that page pg awaits is accepted, and once it has run the session
\* holds what it supplied, whatever the session held before.
C16_Overwrites(pg) ==
    LET c == pg.sends[1]
        fields == [messages |-> c.finalMessages, updated_at |-> clock]
    IN  /\ ~UpdateWhereId("chat_sessions", user, c.sessionId, fields).error
        /\ \E r \in store'["chat_sessions"] : r.id = c.sessionId
        /\ \A r \in store'["chat_sessions"] :
              r.id = c.sessionId => r.messages = c.finalMessages /\ r.updated_at = clock

C16_LastWriteWins ==
    [][/\ HandleSendUpdatedOn(chat, chat', 1, "ok") => C16_Overwrites(chat)
       /\ HandleSendUpdatedOn(chat2, chat2', 1, "ok") => C16_Overwrites(chat2)]_vars

\* The first tab's update has run (the session holds its list, with "h" and the
\* reply), and the second tab awaits its own update of the same session with a
\* list built from what it read before: one that lacks the first tab's message.
C16_Witness ==
    /\ chat.sends = <<>> /\ Len(chat.messages) = 3
    /\ chat2.sends # <<>>
    /\ chat2.sends[1].stage = "update"
    /\ \E r \in store["chat_sessions"] :
          /\ r.id = chat2.sends[1].sessionId
          /\ r.messages = chat.messages
          /\ r.messages # EarlierSession.messages
          /\ chat2.sends[1].finalMessages # r.messages

\* ---------------------------------------------------------------------------
\* C17: extraction yields non-empty text whenever the document contains
\* extractable text; for a document without extractable text (a scan, an empty
\* content stream) and for a password-protected document the extraction ends
\* in a failure, not in a successful empty result.
\* ---------------------------------------------------------------------------

\* The document holds text other than white space.
C17_HasText(file) ==
    IF file.corrupt THEN FALSE
    ELSE IF file.type = PDF
    THEN /\ ~file.encrypted
         /\ \E n \in DOMAIN file.pages : \E m \in DOMAIN file.pages[n] :
               \E i \in DOMAIN file.pages[n][m] : ~IsSpace(file.pages[n][m][i])
    ELSE \E i \in DOMAIN file.value : ~IsSpace(file.value[i])

\* The extraction of the picked document has ended.
C17_Extracted ==
    notes.selectedFile # <<>> /\ notes.extracts = <<>>

C17_Failed ==
    toast = "Failed to extract text from file. Please try pasting the text manually."

C17_TextOrFailure ==
    C17_Extracted =>
        IF C17_HasText(notes.selectedFile[1])
        THEN ~C17_Failed /\ notes.noteText # <<>>
        ELSE C17_Failed

\* ---------------------------------------------------------------------------
\* C18: for a PDF document of n pages extractTextFromPDF returns the texts of
\* the pages (the text runs of a page joined in extraction order) in page order
\* 1..n, with a blank line between consecutive pages.
\* ---------------------------------------------------------------------------

\* The texts of the pages, a blank line between consecutive pages.
C18_PagesJoined(pages) ==
    Join([n \in DOMAIN pages |-> Join(pages[n], <<" ">>)], <<"\n", "\n">>)

\* The text of a PDF document was extracted.
C18_PDFExtracted ==
    C17_Extracted /\ toast = "PDF text extracted successfully!"

C18_PagesInOrder ==
    C18_PDFExtracted => notes.noteText = C18_PagesJoined(notes.selectedFile[1].pages)

\* As the code has it: the same, with the white space at the two ends of the
\* whole text removed.
C18_PagesInOrderTrimmed ==
    C18_PDFExtracted => notes.noteText = Trim(C18_PagesJoined(notes.selectedFile[1].pages))

\* A document of two pages with text on both: the result holds the two texts
\* and the blank line between them.
C18_Witness ==
    /\ C18_PDFExtracted
    /\ notes.selectedFile[1].pages = <<<<<<"p">>, <<"q">>>>, <<<<"q">>>>>>
    /\ notes.noteText = <<"p", " ", "q", "\n", "\n", "q">>

C20_Lists(l, rows) ==
    /\ Len(l) = Cardinality(rows)
    /\ \A r \in rows : \E n \in DOMAIN l : l[n] = r
    /\ \A n \in DOMAIN l : l[n] \in rows

\* The list l is in the order of column c, ascending (dir = 1) or descending
\* (dir = -1).
C20_Ordered(l, c, dir) ==
    \A n \in DOMAIN l : \A m \in DOMAIN l : n < m => dir * l[n][c] <= dir * l[m][c]

C20_Owned(t) == {r \in store[t] : r.user_id = user}

\* What the read of a page gives is the rows in this order.
C20_Reads(data, rows, c, dir) == C20_Lists(data, rows) /\ C20_Ordered(data, c, dir)

\* The reads of Notes, Quizzes and PastPapers.
C20_NewestFirst ==
    \A k \in 1 .. MaxFetch :
        /\ FetchNotesRead(k, "ok") =>
             C20_Reads(notes'.fetches[k].data, C20_Owned("notes"), "created_at", -1)
        /\ FetchQuizzesRead(k, "ok") =>
             C20_Reads(quiz'.fetches[k].data, C20_Owned("quizzes"), "created_at", -1)
        /\ FetchPapersRead(k, "ok") =>
             C20_Reads(papers'.fetches[k].data, C20_Owned("past_papers"), "created_at", -1)

\* The read of Insights, seen through the chart data made of it.
C20_InsightsReads(rows) ==
    FetchInsightsQuizzes("ok") =>
        \E l \in [1 .. Cardinality(rows) -> rows] :
            /\ C20_Reads(l, rows, "created_at", 1)
            /\ insights'.quizPerformance = PerformanceData(l)

C20_OrderedByCreation ==
    [][/\ C20_NewestFirst
       /\ C20_InsightsReads(C20_Owned("quizzes"))
       /\ \A k \in 1 .. MaxToggles :
            FetchTasksRead(k, "ok") =>
               C20_Reads(planner'.fetches[k].data, C20_Owned("study_tasks"), "created_at", 1)]_vars

\* As the code has it: the Planner orders its tasks by their date, and Insights
\* reads the quizzes that are completed.
C20_OrderedAsTheFeatureChooses ==
    [][/\ C20_NewestFirst
       /\ C20_InsightsReads({r \in C20_Owned("quizzes") : r.completed})
       /\ \A k \in 1 .. MaxToggles :
            FetchTasksRead(k, "ok") =>
               C20_Reads(planner'.fetches[k].data, C20_Owned("study_tasks"), "date", 1)]_vars

\* The Planner lists the task of the earlier date first, though it was created
\* after the other one, and leaves out the row of the other user.
C20_Witness ==
    /\ Len(planner.tasks) = 2
    /\ planner.tasks[1].date < planner.tasks[2].date
    /\ planner.tasks[1].created_at > planner.tasks[2].created_at
    /\ StrangersRow \in store["study_tasks"]

\* ---------------------------------------------------------------------------
\* C21: generateStudyPlan persists the generated tasks in one insert, and so
\* stores every generated task or none of them: the step in which the insert
\* is answered either leaves the store as it was or adds one row for each of
\* the tasks, with the task's columns; no other step of the call writes.
\* ---------------------------------------------------------------------------

\* The rows the step added to study_tasks are the rows of the k-th call, one
\* for each.
C21_AllStored(k) ==
    LET rows == planner.plans[k].rows
        new == store'["study_tasks"] \ store["study_tasks"]
    IN  /\ store["study_tasks"] \subseteq store'["study_tasks"]
        /\ Cardinality(new) = Len(rows)
        /\ \A n \in DOMAIN rows : \E r \in new :
              \A c \in DOMAIN rows[n] : c \in DOMAIN r /\ r[c] = rows[n][c]

C21_AllOrNone ==
    [][/\ \A k \in 1 .. MaxInvocations, o \in Outcomes :
            GenerateStudyPlanInserted(k, o) => (store' = store \/ C21_AllStored(k))
       /\ (GenerateStudyPlan \/ \E got \in PlanResults : GenerateStudyPlanInvoked(1, got))
             => store' = store]_vars

\* A plan of two tasks was stored whole.
C21_Witness ==
    /\ toast = "Study plan generated!"
    /\ Cardinality(store["study_tasks"]) = 2
    /\ nextId = 2

\* ---------------------------------------------------------------------------
\* C22: with two extractions of the Notes form under way at the same time, the
\* extracting flag is true as long as any extraction is in flight, and once
\* the last of them has finished, in whichever order, noteText holds the text
\* extracted from the file in selectedFile, the last file picked (when that
\* file could be read).
\* ---------------------------------------------------------------------------

\* What the extraction of the file gives.
C22_Got(file) ==
    IF file.type = PDF THEN ExtractTextFromPDF(file) ELSE ExtractTextFromDOCX(file)

C22_LastPickedFileWins ==
    [][/\ notes'.extracts # <<>> => notes'.extracting
       /\ \A k \in 1 .. MaxExtracts :
            (/\ HandleFileChangeReturn(k)
             /\ notes'.extracts = <<>>
             /\ ~C22_Got(notes.selectedFile[1]).threw)
            => notes'.noteText = C22_Got(notes.selectedFile[1]).text]_vars

\* ---------------------------------------------------------------------------
\* C23: while a quiz of N questions is on the page, 0 <= currentQuestion <= N-1
\* and 0 <= score <= the number of questions answered so far; and every
\* quizzes row saveQuizResult sends or has written has
\* 0 <= score <= total_questions.
\* ---------------------------------------------------------------------------
C23_ScoreInRange(r) == 0 <= r.score /\ r.score <= r.total_questions

C23_QuizWithinBounds ==
    /\ quiz.currentQuiz # NoQuiz =>
          /\ 0 <= quiz.currentQuestion
          /\ quiz.currentQuestion <= Len(quiz.currentQuiz) - 1
          /\ 0 <= quiz.score /\ quiz.score <= quiz.nAnswered
          /\ quiz.nAnswered <= Len(quiz.currentQuiz)
    /\ \A n \in DOMAIN quiz.saves : C23_ScoreInRange(quiz.saves[n])
    /\ \A r \in store["quizzes"] : C23_ScoreInRange(r)

\* A quiz of several questions was answered to its end, every answer right,
\* and its row is stored.
C23_Witness ==
    /\ quiz.showResult
    /\ Len(quiz.currentQuiz) >= 2
    /\ quiz.currentQuestion = Len(quiz.currentQuiz) - 1
    /\ quiz.score = Len(quiz.currentQuiz)
    /\ \E r \in store["quizzes"] : r.score = r.total_questions /\ r.score >= 2

\* ---------------------------------------------------------------------------
\* C24: saveQuizResult is called at most once for a generated quiz, and only
\* when its last question is answered: the step that sends a quizzes insert is
\* the handleNextQuestion that answers the last question and ends the quiz, and
\* an ended quiz stays ended for as long as it is on the page.  resetQuiz
\* sends no insert and writes nothing, so a quiz left before its last question
\* is answered writes no row; a quizzes row is only ever written from an
\* insert that was sent; and handleNextQuestion with no answer selected
\* changes neither the quiz state nor the store.
\* ---------------------------------------------------------------------------
C24_Sends == Len(quiz'.saves) > Len(quiz.saves)

C24_SavedOnceAtTheEnd ==
    [][/\ C24_Sends =>
            /\ HandleNextQuestion
            /\ quiz.selectedAnswer # NoAnswer
            /\ quiz.currentQuestion = Len(quiz.currentQuiz) - 1
            /\ ~quiz.showResult /\ quiz'.showResult
            /\ quiz'.saves = Append(quiz.saves, QuizPayload(quiz'.score))
       /\ (quiz.showResult /\ quiz'.currentQuiz # NoQuiz) =>
            /\ quiz'.showResult /\ quiz'.currentQuiz = quiz.currentQuiz
            /\ ~C24_Sends
       /\ ResetQuiz => (quiz'.saves = quiz.saves /\ store' = store)
       /\ store'["quizzes"] # store["quizzes"] =>
            \E i \in DOMAIN quiz.saves :
                /\ quiz'.saves = RemoveAt(quiz.saves, i)
                /\ store'["quizzes"] = InsertRow("quizzes", user, quiz.saves[i])
       /\ (HandleNextQuestion /\ quiz.selectedAnswer = NoAnswer) =>
            (quiz' = quiz /\ store' = store)]_vars

\* The last question of a quiz of several questions was just answered: its one
\* insert is under way and no row is written yet.
C24_Witness ==
    /\ quiz.showResult /\ Len(quiz.currentQuiz) >= 2
    /\ Len(quiz.saves) = 1
    /\ quiz.saves[1].total_questions = Len(quiz.currentQuiz)
    /\ store["quizzes"] = {}

\* ---------------------------------------------------------------------------
\* C25: within one Notes page at most one process-note call, from handleSubmit
\* or from handleRegenerate, is in flight at any time (the processing flag is
\* true exactly while one of the two handlers is under way), and every such
\* call, whether it succeeds or fails at process-note or at the store, sets
\* the processing flag back to false in the end.
\* ---------------------------------------------------------------------------
C25_Handlers == Len(notes.submits) + Len(notes.regens)

\* The invocations of process-note a handler of the page is waiting for.
C25_Calls ==
    Cardinality({i \in Invocations :
        \/ \E k \in DOMAIN notes.submits :
              notes.submits[k].stage = "ai" /\ notes.submits[k].call = i
        \/ \E k \in DOMAIN notes.regens :
              notes.regens[k].stage = "ai" /\ notes.regens[k].call = i})

C25_OneCallAndFlagCleared ==
    /\ [](/\ C25_Handlers <= 1
          /\ C25_Calls <= 1
          /\ \A k \in DOMAIN notes.submits : notes.submits[k].stage = "ai" => C25_Calls = 1
          /\ \A k \in DOMAIN notes.regens : notes.regens[k].stage = "ai" => C25_Calls = 1
          /\ notes.processing <=> C25_Handlers = 1)
    /\ (notes.processing ~> ~notes.processing)

\* A regenerate is past its process-note call and awaits its update, the form
\* is filled in, and the flag keeps both buttons disabled.
C25_Witness ==
    /\ notes.processing
    /\ notes.noteTitle # <<>> /\ notes.noteText # <<>>
    /\ notes.submits = <<>>
    /\ Len(notes.regens) = 1 /\ notes.regens[1].stage = "update"

\* ---------------------------------------------------------------------------
\* C26: a note deleted while a handleRegenerate for it is in flight stays
\* deleted: the regenerate's update, executing after the delete, leaves the
\* store as it is; an id that is gone from notes never comes back; and a list
\* read returns stored rows only, so no later read shows the note.
\* ---------------------------------------------------------------------------
C26_Gone(table, id) == \A r \in table : r.id # id

C26_DeletedStaysDeleted ==
    [][/\ \A k \in 1 .. MaxRows, o \in Outcomes :
            (/\ HandleRegenerateUpdated(k, o)
             /\ C26_Gone(store["notes"], notes.regens[k].id)) => store' = store
       /\ \A id \in 0 .. nextId - 1 :
            C26_Gone(store["notes"], id) => C26_Gone(store'["notes"], id)
       /\ \A k \in 1 .. MaxFetch :
            FetchNotesRead(k, "ok") =>
               \A n \in DOMAIN notes'.fetches[k].data :
                   notes'.fetches[k].data[n] \in store["notes"]]_vars

\* The saved note was deleted while its regenerate awaited process-note; the
\* list was read again and is empty; the update then ran, wrote nothing, and
\* starts the next read.
C26_Witness ==
    /\ toast = "Note regenerated!"
    /\ C26_Gone(store["notes"], 0)
    /\ notes.regens = <<>> /\ notes.deletes = <<>>
    /\ notes.fetches # <<>> /\ notes.notes = <<>>

\* ---------------------------------------------------------------------------
\* C27: in a single Chat page the displayed message list only grows by
\* appending: an accepted send appends exactly one user message, a successful
\* chat-tutor answer appends exactly one assistant message after it, and no
\* other step but the load of the session changes the list; every message list
\* written to chat_sessions is the list displayed at the time of the write and
\* ends with an assistant message; and at most one chat-tutor call is in
\* flight at a time.
\* ---------------------------------------------------------------------------
C27_Last(seq) == seq[Len(seq)]

C27_Written ==
    {r.messages : r \in store'["chat_sessions"]} \ {r.messages : r \in store["chat_sessions"]}

C27_AppendOnly ==
    [][/\ chat'.messages # chat.messages =>
            \/ /\ HandleSend
               /\ chat'.messages = Append(chat.messages, [role |-> "user", content |-> chat.input])
            \/ /\ \E got \in ChatResults : HandleSendInvoked(1, got)
               /\ Len(chat'.messages) = Len(chat.messages) + 1
               /\ SubSeq(chat'.messages, 1, Len(chat.messages)) = chat.messages
               /\ C27_Last(chat.messages).role = "user"
               /\ C27_Last(chat'.messages).role = "assistant"
            \/ /\ \E o \in Outcomes : LoadSessionRead(o)
               /\ chat.messages = <<>>
       /\ (HandleSend /\ chat' # chat) => Len(chat'.messages) = Len(chat.messages) + 1
       /\ \A got \in ChatResults :
            (HandleSendInvoked(1, got) /\ ~(got.error \/ got.isNull))
               => Len(chat'.messages) = Len(chat.messages) + 1
       /\ \A o \in Outcomes :
            HandleSendUpdated(1, o) =>
               \A written \in C27_Written :
                   written = chat.messages /\ C27_Last(written).role = "assistant"
       /\ Len(chat'.sends) <= 1
       /\ chat'.sends # <<>> => chat'.loading]_vars

\* A question was sent in the session of an earlier visit and answered, and the
\* list on the page is the list in the store.
C27_Witness ==
    /\ Len(chat.messages) = 3
    /\ chat.messages[2].role = "user" /\ chat.messages[3].role = "assistant"
    /\ chat.sends = <<>> /\ ~chat.loading
    /\ \E r \in store["chat_sessions"] : r.messages = chat.messages

\* ---------------------------------------------------------------------------
\* C28: loadOrCreateSession inserts a chat_sessions row only when the user has
\* no session, and otherwise adopts the most recently created session with its
\* stored messages; so with the loads of the Chat page of one user running one
\* after another (the session of an earlier visit was made by the load of that
\* visit), the user never has more than one chat_sessions row.
\* ---------------------------------------------------------------------------
C28_Sessions(table) == {r \in table : r.user_id = user}

C28_OneSessionPerUser ==
    [][/\ \A o \in Outcomes :
            (LoadSessionInserted(o) /\ store' # store)
               => C28_Sessions(store["chat_sessions"]) = {}
       /\ \A o \in Outcomes :
            (LoadSessionRead(o) /\ C28_Sessions(store["chat_sessions"]) # {})
               => /\ chat'.load.stage = "done"
                  /\ chat'.sessionId = <<LatestSession[1].id>>
                  /\ chat'.messages = LatestSession[1].messages
       /\ Cardinality(C28_Sessions(store'["chat_sessions"])) <= 1]_vars

\* ---------------------------------------------------------------------------
\* C29: every request to process-note gets a response.  An OPTIONS request is
\* answered (200) without any upstream call; a failure while handling another
\* request (a body that cannot be read, the credential missing, the upstream
\* unreachable or answering with an error status, a body that is not JSON or
\* has no choices, tool-call arguments that are not valid JSON) is answered
\* with status 500 and an error message; and on that response the Notes page
\* inserts or updates no row: the handler that awaited it ends there.  (A
\* request that stayed without a response would keep its invocation waiting
\* for the upstream for ever: whenever one waits, a time comes when none does.)
\* ---------------------------------------------------------------------------

\* Invocation i has ended, and handling its request had failed.
C29_Failed(i) ==
    /\ fn[i].pc = "done"
    /\ fn[i].req.method # "OPTIONS"
    /\ \/ ~fn[i].req.json
       \/ env.LOVABLE_API_KEY = <<>>
       \/ /\ "response" \in DOMAIN fn[i]
          /\ \/ fn[i].response.rejected
             \/ ~ResponseOk(fn[i].response)
             \/ fn[i].response.body.shape \in {"not_json", "no_choices"}
             \/ /\ fn[i].response.body.shape = "tool"
                /\ fn[i].response.body.arguments.json = "invalid"

C29_Answers ==
    \A i \in Invocations :
        /\ fn[i].pc \in {"idle", "fetch", "done"}
        /\ fn[i].pc = "done" => fn[i].resp.status \in {200, 500}
        /\ (fn[i].pc = "done" /\ fn[i].req.method = "OPTIONS") =>
              fn[i].sent = 0 /\ fn[i].resp.status = 200
        /\ C29_Failed(i) =>
              /\ fn[i].resp.status = 500
              /\ "error" \in DOMAIN fn[i].resp.body
              /\ "text" \in DOMAIN fn[i].resp.body.error

C29_PageWritesNothing ==
    \A k \in 1 .. MaxRows :
        /\ (HandleSubmitInvoked(k) /\ C29_Failed(notes.submits[k].call)) =>
              /\ store' = store
              /\ notes'.submits = RemoveAt(notes.submits, k)
              /\ toast' = "Failed to process note"
        /\ (HandleRegenerateInvoked(k) /\ C29_Failed(notes.regens[k].call)) =>
              /\ store' = store
              /\ notes'.regens = RemoveAt(notes.regens, k)
              /\ toast' = "Failed to regenerate note"

C29_EveryRequestAnswered ==
    /\ []C29_Answers
    /\ [][C29_PageWritesNothing]_vars
    /\ (\E i \in Invocations : fn[i].pc = "fetch")
          ~> (\A i \in Invocations : fn[i].pc # "fetch")

\* handleSubmit is waiting for process-note, which has answered 500 because
\* the tool-call arguments it got were not valid JSON.
C29_Witness ==
    \E k \in DOMAIN notes.submits :
        /\ notes.submits[k].stage = "ai"
        /\ C29_Failed(notes.submits[k].call)
        /\ "response" \in DOMAIN fn[notes.submits[k].call]
        /\ ~fn[notes.submits[k].call].response.rejected
        /\ fn[notes.submits[k].call].response.status = 200
        /\ fn[notes.submits[k].call].response.body.shape = "tool"

\* ---------------------------------------------------------------------------
\* C30: in the Planner the Upcoming and the Completed list are disjoint: a
\* task is in Completed iff completed is true, and in Upcoming iff completed
\* is false and its date is not before the current time.  handleToggleComplete
\* writes the negation of the completed value the page last read, so that when
\* the list read that follows the update has come back, the task has left the
\* list it was toggled from: a task checked in Upcoming is not in Upcoming,
\* a task unchecked in Completed is not in Completed.
\* ---------------------------------------------------------------------------

\* The times of a render: from before the first day to after the last one.
C30_Times == 0 .. 2 * 2 + 1

C30_ListsOf(tasks) ==
    \A now \in C30_Times :
        /\ UpcomingTasks(tasks, now) \cap CompletedTasks(tasks) = {}
        /\ \A n \in DOMAIN tasks :
              /\ n \in CompletedTasks(tasks) <=> tasks[n].completed
              /\ n \in UpcomingTasks(tasks, now)
                    <=> (~tasks[n].completed /\ 2 * tasks[n].date >= now)

C30_ToggledTaskChangesList ==
    [][/\ C30_ListsOf(planner'.tasks)
       /\ \A n \in 1 .. 2 :
            HandleToggleComplete(n) =>
               planner'.toggles = Append(planner.toggles,
                   [id |-> planner.tasks[n].id,
                    fields |-> [completed |-> ~planner.tasks[n].completed]])
       /\ \A k \in 1 .. MaxToggles :
            (/\ FetchTasksReturn(k)
             /\ planner.fetches[k].st = "data"
             /\ "toggle" \in DOMAIN planner.fetches[k])
            => \A n \in DOMAIN planner'.tasks :
                  planner'.tasks[n].id = planner.fetches[k].toggle.id
                     => IF planner.fetches[k].toggle.fields.completed
                        THEN \A now \in C30_Times :
                                n \notin UpcomingTasks(planner'.tasks, now)
                        ELSE n \notin CompletedTasks(planner'.tasks)]_vars

====
